---- MODULE Spec2Model ----
(***************************************************************************)
(* Model of the columnar decoding layer of vizr (src/src/data_loader.rs):  *)
(* the array-to-value extractors to_str, to_i64, to_list, to_struct_str,   *)
(* to_complex, to_series_point, to_error_info, to_event_info and           *)
(* to_accel_point, the decimal text parser parse_scientific and the        *)
(* loaders filter_data and load_accelerations_for_multiple_series; of      *)
(* Scientific (src/src/symlog.rs): approx_f64, symlog and format; and of   *)
(* the dashboard (src/src/app.rs): its quick filter and its loading of     *)
(* data in the background.                                                 *)
(*                                                                         *)
(* An Arrow array is a record tagged with its physical data type `dt`.     *)
(* Text is a sequence of one-character strings, so that the parser can     *)
(* look at single characters.  An anyhow::Result is a record with the      *)
(* field `ok`; an Option is a record with the field `some`.                *)
(***************************************************************************)
EXTENDS Integers, Sequences, FiniteSets, TLC

\* fn: the extractor that is called; elem: the per-element decoder handed to
\* to_list; arg: the column it is called on; pc: "call" before the extractor
\* has run and "done" after; ret: what it returned
VARIABLES fn, elem, arg, pc, ret

\* The dashboard (src/src/app.rs, DashboardApp).  data, loading, symlog: its
\* fields; data_receiver: the results sent on the channel and not received
\* yet; loader_threads: the loader threads that run, each named by the
\* number of the update_data call that spawned it; at: "idle" between two
\* frames, "ui" inside update() after check_for_data; loads: the number of
\* update_data calls so far; checked: what the last check_for_data did
VARIABLES data, loading, symlog, data_receiver, loader_threads, at, loads, checked

callvars == <<fn, elem, arg, pc, ret>>

appvars == <<data, loading, symlog, data_receiver, loader_threads, at, loads, checked>>

vars == <<fn, elem, arg, pc, ret,
          data, loading, symlog, data_receiver, loader_threads, at, loads, checked>>

(***************************************************************************)
(* Bounds of the model.                                                    *)
(***************************************************************************)
\* longest string, integer or list column (number of rows)
MaxRows == 3

\* longest struct column (number of rows)
MaxStructRows == 2

\* most rows a query returns
MaxTableRows == 2

\* longest text handed to parse_scientific, the words of the float grammar aside
MaxTextLen == 3

\* most clicks on the refresh button in a run of the dashboard
MaxLoads == 2

\* the number of bits that stands for the 8 bits of the narrowest integer
\* type; the 16, 32 and 64 bits of the wider ones are one, two and three more
WordBits == 4

(***************************************************************************)
(* Option and anyhow::Result.                                              *)
(***************************************************************************)
None == [some |-> FALSE]

Some(x) == [some |-> TRUE, v |-> x]

Ok(x) == [ok |-> TRUE, val |-> x]

\* an anyhow error: its message, and the text interpolated into the message
Err(msg, detail) == [ok |-> FALSE, msg |-> msg, detail |-> detail]

Min(a, b) == IF a <= b THEN a ELSE b

Max(a, b) == IF a >= b THEN a ELSE b

\* the index of the first element of s satisfying membership in S, or 0
FirstIn(s, S) ==
    IF \E i \in 1..Len(s) : s[i] \in S
    THEN CHOOSE i \in 1..Len(s) : s[i] \in S /\ \A j \in 1..(i - 1) : s[j] \notin S
    ELSE 0

\* Collecting a loop that pushes one value per row and leaves at the first
\* failing row with `?`: the error of the first failing row, else all values.
\* (done is rs with every row evaluated, once.)
Collect(rs) ==
    LET done == rs \o <<>>
    IN  IF \E i \in 1..Len(done) : ~done[i].ok
        THEN done[CHOOSE i \in 1..Len(done) :
                    ~done[i].ok /\ \A j \in 1..(i - 1) : done[j].ok]
        ELSE Ok([i \in 1..Len(done) |-> done[i].val])

(***************************************************************************)
(* Arrow arrays.                                                           *)
(***************************************************************************)
StringTypes == {"Utf8", "LargeUtf8", "Utf8View"}

IntTypes == {"Int8", "UInt8", "Int16", "UInt16", "Int32", "UInt32", "Int64", "UInt64"}

ListTypes == {"List", "LargeList", "ListView", "LargeListView"}

\* a string array: one optional text per row
StringArray(dt, cells) == [dt |-> dt, cells |-> cells]

\* an integer array: one optional integer per row
PrimitiveArray(dt, cells) == [dt |-> dt, cells |-> cells]

\* a list array: one optional child array (the row's slice) per row
ListArray(dt, cells) == [dt |-> dt, cells |-> cells]

\* the untyped all-null array of n rows
NullArray(n) == [dt |-> "Null", len |-> n]

\* an array of a type no extractor knows (Float64, Boolean, ...)
OtherArray(dt, n) == [dt |-> dt, len |-> n]

\* a struct array: the validity of each row and the named child arrays
StructArray(valid, names, columns) ==
    [dt |-> "Struct", valid |-> valid, names |-> names, columns |-> columns]

\* Array::len
ArrLen(v) ==
    IF v.dt = "Struct" THEN Len(v.valid)
    ELSE IF v.dt \in StringTypes \cup IntTypes \cup ListTypes THEN Len(v.cells)
    ELSE v.len

\* Array::is_null(i), rows counted from 1
IsNull(v, i) ==
    IF v.dt = "Struct" THEN ~v.valid[i]
    ELSE IF v.dt \in StringTypes \cup IntTypes \cup ListTypes THEN ~v.cells[i].some
    ELSE v.dt = "Null"

\* StructArray::column_by_name: the first child of that name, if any
column_by_name(v, name) ==
    LET i == FirstIn(v.names, {name})
    IN  IF i = 0 THEN None ELSE Some(v.columns[i])

(***************************************************************************)
(* Text and numbers.                                                       *)
(***************************************************************************)
Digits == <<"0", "1", "2", "3", "4", "5", "6", "7", "8", "9">>

DigitSet == {Digits[i] : i \in 1..10}

DigitVal(c) == (CHOOSE i \in 1..10 : Digits[i] = c) - 1

IsDigits(s) == \A i \in 1..Len(s) : s[i] \in DigitSet

RECURSIVE DigitsVal(_)
DigitsVal(s) ==
    IF s = <<>> THEN 0
    ELSE DigitsVal(SubSeq(s, 1, Len(s) - 1)) * 10 + DigitVal(s[Len(s)])

\* ASCII lower case of the letters the float grammar names
ToLower(c) ==
    CASE c = "I" -> "i" [] c = "N" -> "n" [] c = "F" -> "f" [] c = "T" -> "t"
      [] c = "Y" -> "y" [] c = "A" -> "a" [] OTHER -> c

\* a finite f64 as the decimal it was read from: (-1)^neg * num / 10^scale,
\* with the trailing zeros of the fraction dropped
RECURSIVE Finite(_, _, _)
Finite(neg, num, scale) ==
    IF scale > 0 /\ num % 10 = 0 THEN Finite(neg, num \div 10, scale - 1)
    ELSE [cls |-> "finite", neg |-> neg, num |-> num, scale |-> scale]

Infinite(neg) == [cls |-> "inf", neg |-> neg, num |-> 0, scale |-> 0]

NaN(neg) == [cls |-> "nan", neg |-> neg, num |-> 0, scale |-> 0]

Scientific(m, e) == [m |-> m, e |-> e]

\* Scientific(0.0, 0)
Zero == Scientific(Finite(FALSE, 0, 0), 0)

\* str::parse::<f64> on a text without exponent marker (parse_scientific
\* only hands it such texts): [+-]? ( inf | infinity | nan | digits with at
\* most one point and at least one digit ), letters in either case
ParseF64(s) ==
    LET signed == s # <<>> /\ s[1] \in {"+", "-"}
        neg == signed /\ s[1] = "-"
        body == IF signed THEN Tail(s) ELSE s
        lower == [i \in 1..Len(body) |-> ToLower(body[i])]
        dot == FirstIn(body, {"."})
        ip == IF dot = 0 THEN body ELSE SubSeq(body, 1, dot - 1)
        fp == IF dot = 0 THEN <<>> ELSE SubSeq(body, dot + 1, Len(body))
    IN  IF lower \in {<<"i", "n", "f">>, <<"i", "n", "f", "i", "n", "i", "t", "y">>}
        THEN Ok(Infinite(neg))
        ELSE IF lower = <<"n", "a", "n">> THEN Ok(NaN(neg))
        ELSE IF IsDigits(ip) /\ IsDigits(fp) /\ Len(ip) + Len(fp) > 0
        THEN Ok(Finite(neg, DigitsVal(ip \o fp), Len(fp)))
        ELSE Err("invalid float literal", s)

\* str::parse::<i32>: [+-]? digit+, within the range of i32
ParseI32(s) ==
    LET signed == s # <<>> /\ s[1] \in {"+", "-"}
        neg == signed /\ s[1] = "-"
        body == IF signed THEN Tail(s) ELSE s
        nz == FirstIn(body, DigitSet \ {"0"})
        sig == IF nz = 0 THEN <<>> ELSE SubSeq(body, nz, Len(body))
        hi == DigitsVal(SubSeq(sig, 1, Min(Len(sig), 9)))
        lo == DigitVal(sig[10])
    IN  IF s = <<>> THEN Err("cannot parse integer from empty string", s)
        ELSE IF body = <<>> \/ ~IsDigits(body) THEN Err("invalid digit found in string", s)
        ELSE IF Len(sig) <= 9 THEN Ok(IF neg THEN -hi ELSE hi)
        ELSE IF Len(sig) = 10 /\ (hi < 214748364 \/ (hi = 214748364 /\ lo <= (IF neg THEN 8 ELSE 7)))
        THEN Ok(IF neg THEN (-hi) * 10 - lo ELSE hi * 10 + lo)
        ELSE Err("number too large or too small to fit in target type", s)

\* `r?` followed by the rest K of the function: leave with r's error, or go
\* on with r's value
Try(r, K(_)) == IF r.ok THEN K(r.val) ELSE r

\* Result::with_context(|| format!(msg, detail))
with_context(r, msg, detail) == IF r.ok THEN r ELSE Err(msg, detail)

\* Option::context(msg)
context(o, msg) == IF o.some THEN Ok(o.v) ELSE Err(msg, <<>>)

\* Option::unwrap_or(d)
unwrap_or(o, d) == IF o.some THEN o.v ELSE d

\* if let (Some(a), Some(b)) = (oa, ob) { K } ... otherwise
IfSome2(oa, ob, K(_, _), otherwise) ==
    IF oa.some /\ ob.some THEN K(oa.v, ob.v) ELSE otherwise

IfSome3(oa, ob, oc, K(_, _, _), otherwise) ==
    IF oa.some /\ ob.some /\ oc.some THEN K(oa.v, ob.v, oc.v) ELSE otherwise

\* if let (Ok(a), Ok(b)) = (ra, rb) { K } ... otherwise
IfOk2(ra, rb, K(_, _), otherwise) ==
    IF ra.ok /\ rb.ok THEN K(ra.val, rb.val) ELSE otherwise

IfOk3(ra, rb, rc, K(_, _, _), otherwise) ==
    IF ra.ok /\ rb.ok /\ rc.ok THEN K(ra.val, rb.val, rc.val) ELSE otherwise

\* parse_scientific taking the lower-case e alone for the exponent marker
parse_scientific_LowerOnly(s) ==
    LET e_pos == FirstIn(s, {"e"})
        mantissa_str == SubSeq(s, 1, e_pos - 1)
        exponent_str == SubSeq(s, e_pos + 1, Len(s))
    IN  IF e_pos # 0
        THEN Try(with_context(ParseF64(mantissa_str), "Failed to parse mantissa", mantissa_str),
                 LAMBDA mantissa :
             Try(with_context(ParseI32(exponent_str), "Failed to parse exponent", exponent_str),
                 LAMBDA exponent :
             Ok(Scientific(mantissa, exponent))))
        ELSE Try(with_context(ParseF64(s), "Failed to parse number", s),
                 LAMBDA value :
             Ok(Scientific(value, 0)))

parse_scientific(s) ==
    LET e_pos == FirstIn(s, {"e", "E"})
        mantissa_str == SubSeq(s, 1, e_pos - 1)
        exponent_str == SubSeq(s, e_pos + 1, Len(s))
    IN  IF e_pos # 0
        THEN Try(with_context(ParseF64(mantissa_str), "Failed to parse mantissa", mantissa_str),
                 LAMBDA mantissa :
             Try(with_context(ParseI32(exponent_str), "Failed to parse exponent", exponent_str),
                 LAMBDA exponent :
             Ok(Scientific(mantissa, exponent))))
        ELSE Try(with_context(ParseF64(s), "Failed to parse number", s),
                 LAMBDA value :
             Ok(Scientific(value, 0)))

(***************************************************************************)
(* Scientific (symlog.rs): the text of a number and its place on the       *)
(* symmetric logarithmic axis.  An f64 is the decimal it stands for; the   *)
(* numerals of the model have at most nine digits, so that the first nine  *)
(* digits of a number decide on which side of an f64 limit it lies.        *)
(***************************************************************************)
RECURSIVE Pow10(_)
Pow10(k) == IF k <= 0 THEN 1 ELSE 10 * Pow10(k - 1)

RECURSIVE NumDigits(_)
NumDigits(n) == IF n < 10 THEN 1 ELSE 1 + NumDigits(n \div 10)

\* the digits of num as a nine-digit numeral
Lead9(num) == num * Pow10(9 - NumDigits(num))

\* floor(log10(x)) of a finite x other than zero
FloorLog10(x) == NumDigits(x.num) - 1 - x.scale

IsZero(x) == x.cls = "finite" /\ x.num = 0

Abs(x) == [x EXCEPT !.neg = FALSE]

\* the f64 nearest to a decimal: infinite beyond f64::MAX (1.7976931348e308),
\* zero from half the least subnormal (2.4703282292e-324) down
Rounded(x) ==
    LET p == FloorLog10(x)
    IN  IF p > 308 \/ (p = 308 /\ Lead9(x.num) > 179769313) THEN Infinite(x.neg)
        ELSE IF p < -324 \/ (p = -324 /\ Lead9(x.num) < 247032823) THEN Finite(x.neg, 0, 0)
        ELSE x

\* x * 10f64.powi(e): the power is infinite above 308 and zero below -323
TimesPowi(x, e) ==
    CASE x.cls = "nan" -> NaN(FALSE)
      [] x.cls = "inf" -> IF e < -323 THEN NaN(FALSE) ELSE x
      [] IsZero(x) -> IF e > 308 THEN NaN(FALSE) ELSE x
      [] OTHER -> IF e > 308 THEN Infinite(x.neg)
                  ELSE IF e < -323 THEN Finite(x.neg, 0, 0)
                  ELSE Rounded(Finite(x.neg, x.num, x.scale - e))

approx_f64(s) == TimesPowi(s.m, s.e)

RECURSIVE NatText(_)
NatText(n) ==
    IF n < 10 THEN <<Digits[n + 1]>>
    ELSE NatText(n \div 10) \o <<Digits[(n % 10) + 1]>>

\* Display of an i32.  The last digit is taken before the sign is dropped,
\* so that the least i32 has its text too.
IntText(n) ==
    IF n >= 0 THEN NatText(n)
    ELSE LET d == (10 - (n % 10)) % 10
             rest == -((n + d) \div 10)
         IN  <<"-">> \o (IF rest = 0 THEN <<>> ELSE NatText(rest)) \o <<Digits[d + 1]>>

Zeros(k) == [i \in 1..k |-> "0"]

\* n in exactly width digits
Padded(n, width) ==
    IF width = 0 THEN <<>> ELSE Zeros(width - NumDigits(n)) \o NatText(n)

\* {:.places} of an f64 that is not negative: the number rounded to that
\* many decimals, a tie to the even digit
FixedText(x, places) ==
    LET cut == x.scale - places
        unit == Pow10(cut)
        q == x.num \div unit
        r == x.num % unit
        up == 2 * r > unit \/ (2 * r = unit /\ q % 2 = 1)
        shown == IF cut > 0 THEN (IF up THEN q + 1 ELSE q) ELSE x.num
        width == IF cut > 0 THEN places ELSE Max(x.scale, 0)
        whole == IF x.scale < 0 /\ x.num # 0 THEN NatText(x.num) \o Zeros(-x.scale)
                 ELSE NatText(shown \div Pow10(width))
        frac == Padded(shown % Pow10(width), width) \o Zeros(places - width)
    IN  CASE x.cls = "inf" -> <<"i", "n", "f">>
          [] x.cls = "nan" -> <<"N", "a", "N">>
          [] OTHER -> whole \o (IF places > 0 THEN <<".">> ELSE <<>>) \o frac

\* Scientific::format switching to the exponent from zero down
format_ExponentialBelowZero(s) ==
    LET mantissa == s.m
        exponent == s.e
        sign_str == IF mantissa.cls # "nan" /\ mantissa.neg THEN <<"-">> ELSE <<>>
        abs_mantissa == Abs(mantissa)
        real_val == TimesPowi(abs_mantissa, exponent)
    IN  IF IsZero(s.m) THEN <<"0">>
        ELSE IF exponent < 0 \/ exponent > 3
        THEN sign_str \o FixedText(abs_mantissa, 1) \o <<"e">> \o IntText(exponent)
        ELSE sign_str \o FixedText(real_val, 6)

format(s) ==
    LET mantissa == s.m
        exponent == s.e
        sign_str == IF mantissa.cls # "nan" /\ mantissa.neg THEN <<"-">> ELSE <<>>
        abs_mantissa == Abs(mantissa)
        real_val == TimesPowi(abs_mantissa, exponent)
    IN  IF IsZero(s.m) THEN <<"0">>
        ELSE IF exponent < -2 \/ exponent > 3
        THEN sign_str \o FixedText(abs_mantissa, 1) \o <<"e">> \o IntText(exponent)
        ELSE sign_str \o FixedText(real_val, 6)

\* the threshold of the linear region, 1e-50, and its logarithm
LINTHRESH == Finite(FALSE, 1, 50)

LOG_LINTHRESH == -50

\* What symlog returns is the logarithm of a number that no f64 holds, so it
\* is kept as that logarithm: Log10Of(neg, one, num, scale, e) is the f64
\* (-1)^neg * log10(W), W = one + num * 10^(e - scale) / LINTHRESH, the one
\* being there or not.  A logarithm of exactly 1.0 is the zero Finite(neg, 0, 0).
Log10Of(neg, one, num, scale, e) ==
    [cls |-> "log", neg |-> neg, one |-> one, num |-> num, scale |-> scale, e |-> e]

\* the test that always takes the branch of the exact formula
MagnitudeDiffOver16_Never(abs_mantissa, exponent) == FALSE

\* magnitude_diff > 16.0 for a finite mantissa other than zero, where
\* magnitude_diff = log10(abs_mantissa) + exponent - LOG_LINTHRESH.  The
\* logarithm of an f64 lies within -324..309, so an exponent beyond a
\* thousand decides alone.
MagnitudeDiffOver16(abs_mantissa, exponent) ==
    LET whole == FloorLog10(abs_mantissa) + exponent - LOG_LINTHRESH
        power_of_ten == abs_mantissa.num = Pow10(NumDigits(abs_mantissa.num) - 1)
    IN  IF exponent > 1000 THEN TRUE
        ELSE IF exponent < -1000 THEN FALSE
        ELSE whole > 16 \/ (whole = 16 /\ ~power_of_ten)

\* the branch of the large numbers returning the logarithm of the value
\* itself, the threshold forgotten
LogDifference_OfValue(mantissa, exponent) ==
    Log10Of(mantissa.neg, FALSE, mantissa.num, mantissa.scale - LOG_LINTHRESH, exponent)

\* sign * magnitude_diff
LogDifference(mantissa, exponent) ==
    Log10Of(mantissa.neg, FALSE, mantissa.num, mantissa.scale, exponent)

\* sign * (1.0 + x.abs() / LINTHRESH).log10() for the f64 x = approx_f64().
\* The quotient y is an f64: infinite when too large; 1.0 + y is 1.0 up to
\* y = 2^-53 (1.1102230246e-16), and y itself from 1e16 on.
LogOnePlus(neg, x) ==
    LET y == Rounded(Finite(FALSE, x.num, x.scale - LINTHRESH.scale))
        p == FloorLog10(y)
    IN  CASE x.cls = "nan" -> NaN(FALSE)
          [] x.cls = "inf" -> Infinite(neg)
          [] IsZero(x) -> Finite(neg, 0, 0)
          [] y.cls = "inf" -> Infinite(neg)
          [] p < -16 \/ (p = -16 /\ Lead9(y.num) < 111022303) -> Finite(neg, 0, 0)
          [] OTHER -> Log10Of(neg, p < 16, x.num, x.scale, 0)

\* Scientific::symlog without its first step
ScientificSymlog_NoZeroCase(s) ==
    LET mantissa == s.m
        exponent == s.e
        abs_mantissa == Abs(mantissa)
    IN  IF mantissa.cls = "nan" THEN NaN(FALSE)
        ELSE IF mantissa.cls = "inf" THEN Infinite(mantissa.neg)
        ELSE IF ~IsZero(mantissa) /\ MagnitudeDiffOver16(abs_mantissa, exponent)
        THEN LogDifference(mantissa, exponent)
        ELSE LogOnePlus(mantissa.neg, approx_f64(s))

\* Scientific::symlog.  A NaN mantissa makes every step NaN; an infinite one
\* has an infinite logarithm and takes the branch of the large numbers.
ScientificSymlog(s) ==
    LET mantissa == s.m
        exponent == s.e
        abs_mantissa == Abs(mantissa)
    IN  IF IsZero(mantissa) THEN Finite(FALSE, 0, 0)
        ELSE IF mantissa.cls = "nan" THEN NaN(FALSE)
        ELSE IF mantissa.cls = "inf" THEN Infinite(mantissa.neg)
        ELSE IF MagnitudeDiffOver16(abs_mantissa, exponent)
        THEN LogDifference(mantissa, exponent)
        ELSE LogOnePlus(mantissa.neg, approx_f64(s))

(***************************************************************************)
(* The extractors.                                                         *)
(***************************************************************************)
\* The widths of the integer types.  A cell of 64 bits cannot be written as
\* an integer of the checker, so the model scales the widths down and keeps
\* their order: 8, 16, 32 and 64 bits become WordBits, WordBits + 1,
\* WordBits + 2 and WordBits + 3 bits.
Bits(dt) ==
    CASE dt \in {"Int8", "UInt8"} -> WordBits
      [] dt \in {"Int16", "UInt16"} -> WordBits + 1
      [] dt \in {"Int32", "UInt32"} -> WordBits + 2
      [] dt \in {"Int64", "UInt64"} -> WordBits + 3

Signed(dt) == dt \in {"Int8", "Int16", "Int32", "Int64"}

RECURSIVE Pow2(_)
Pow2(n) == IF n = 0 THEN 1 ELSE 2 * Pow2(n - 1)

\* the least and the greatest value of the integer type dt
MinOf(dt) == IF Signed(dt) THEN -Pow2(Bits(dt) - 1) ELSE 0

MaxOf(dt) == IF Signed(dt) THEN Pow2(Bits(dt) - 1) - 1 ELSE Pow2(Bits(dt)) - 1

\* an `as` cast of the integer x to the signed type dt: the low bits of x,
\* read in two's complement
Wrap(x, dt) == ((x - MinOf(dt)) % Pow2(Bits(dt))) + MinOf(dt)

\* `x as i64` of a cell of the integer type dt
AsI64(dt, x) == Wrap(x, "Int64")

\* `x as i32` of an i64
AsI32(x) == Wrap(x, "Int32")

\* to_str without the branch for the wide-offset encoding
to_str_NoLargeUtf8(name, v) ==
    IF v.dt = "Utf8" THEN Ok(v.cells)
    ELSE IF v.dt = "Utf8View" THEN Ok(v.cells)
    ELSE IF v.dt = "Null" THEN Ok([i \in 1..v.len |-> None])
    ELSE Err("Expected to be string", <<name, v.dt>>)

to_str(name, v) ==
    IF v.dt = "Utf8" THEN Ok(v.cells)
    ELSE IF v.dt = "LargeUtf8" THEN Ok(v.cells)
    ELSE IF v.dt = "Utf8View" THEN Ok(v.cells)
    ELSE IF v.dt = "Null" THEN Ok([i \in 1..v.len |-> None])
    ELSE Err("Expected to be string", <<name, v.dt>>)

\* to_i64 without the branch for the untyped all-null array
to_i64_NoNullArray(name, v) ==
    IF v.dt \in IntTypes
    THEN Ok([i \in 1..Len(v.cells) |->
                IF v.cells[i].some THEN Some(AsI64(v.dt, v.cells[i].v)) ELSE None])
    ELSE Err("Expected to be int", <<name, v.dt>>)

\* the eight branches of the code, one per integer type, have the same body
to_i64(name, v) ==
    IF v.dt \in IntTypes
    THEN Ok([i \in 1..Len(v.cells) |->
                IF v.cells[i].some THEN Some(AsI64(v.dt, v.cells[i].v)) ELSE None])
    ELSE IF v.dt = "Null" THEN Ok([i \in 1..v.len |-> None])
    ELSE Err("Expected to be int", <<name, v.dt>>)

\* to_struct_str leaving the map of a null struct row empty
to_struct_str_SkipNullRows(name, v) ==
    IF v.dt = "Struct"
    THEN LET fields == [j \in 1..Len(v.names) |-> to_str(v.names[j], v.columns[j])]
             bad == CHOOSE j \in 1..Len(fields) :
                        ~fields[j].ok /\ \A k \in 1..(j - 1) : fields[k].ok
             has(i, j) == i <= Len(fields[j].val) /\ fields[j].val[i].some /\ v.valid[i]
             last(i, key) == CHOOSE j \in 1..Len(fields) :
                                 /\ v.names[j] = key /\ has(i, j)
                                 /\ \A k \in (j + 1)..Len(fields) :
                                        ~(v.names[k] = key /\ has(i, k))
         IN  IF \E j \in 1..Len(fields) : ~fields[j].ok THEN fields[bad]
             ELSE Ok([i \in 1..ArrLen(v) |->
                        [key \in {v.names[j] : j \in {k \in 1..Len(fields) : has(i, k)}} |->
                            fields[last(i, key)].val[i].v]])
    ELSE Err("Expected to be struct of strings", <<name, v.dt>>)

to_struct_str(name, v) ==
    IF v.dt = "Struct"
    THEN LET fields == [j \in 1..Len(v.names) |-> to_str(v.names[j], v.columns[j])]
             bad == CHOOSE j \in 1..Len(fields) :
                        ~fields[j].ok /\ \A k \in 1..(j - 1) : fields[k].ok
             has(i, j) == i <= Len(fields[j].val) /\ fields[j].val[i].some
             \* a later insert of the same key replaces the earlier one
             last(i, key) == CHOOSE j \in 1..Len(fields) :
                                 /\ v.names[j] = key /\ has(i, j)
                                 /\ \A k \in (j + 1)..Len(fields) :
                                        ~(v.names[k] = key /\ has(i, k))
         IN  IF \E j \in 1..Len(fields) : ~fields[j].ok THEN fields[bad]
             ELSE Ok([i \in 1..ArrLen(v) |->
                        [key \in {v.names[j] : j \in {k \in 1..Len(fields) : has(i, k)}} |->
                            fields[last(i, key)].val[i].v]])
    ELSE Err("Expected to be struct of strings", <<name, v.dt>>)

ComplexNumber(real, imag) == [real |-> real, imag |-> imag]

\* imag.map(|x| parse_scientific(x)).transpose()
ParseOpt(imag) ==
    IF imag.some THEN Try(parse_scientific(imag.v), LAMBDA x : Ok(Some(x))) ELSE Ok(None)

\* to_complex's loop body reading `real` before it looks at the row's validity
ComplexRow_RealBeforeNullCheck(v, i, real, imag) ==
    Try(context(real, "real is null"), LAMBDA r :
    Try(parse_scientific(r), LAMBDA re :
    IF IsNull(v, i) THEN Ok(None)
    ELSE Try(ParseOpt(imag), LAMBDA im :
         Ok(Some(ComplexNumber(re, unwrap_or(im, Zero)))))))

\* to_complex's loop body taking an imag that does not parse for zero
ComplexRow_BadImagIsZero(v, i, real, imag) ==
    IF IsNull(v, i) THEN Ok(None)
    ELSE Try(context(real, "real is null"), LAMBDA r :
         Try(parse_scientific(r), LAMBDA re :
         LET im == ParseOpt(imag)
         IN  Ok(Some(ComplexNumber(re, IF im.ok THEN unwrap_or(im.val, Zero) ELSE Zero)))))

\* one pass of to_complex's loop: row i with its real and imag cells
ComplexRow(v, i, real, imag) ==
    IF IsNull(v, i) THEN Ok(None)
    ELSE Try(context(real, "real is null"), LAMBDA r :
         Try(parse_scientific(r), LAMBDA re :
         Try(ParseOpt(imag), LAMBDA im :
         Ok(Some(ComplexNumber(re, unwrap_or(im, Zero)))))))

\* to_complex leaving the null rows out of its result
to_complex_SkipNullRows(name, v) ==
    LET mismatch == Err("Expected to be { real: str, imag: str }", <<name, v.dt>>)
    IN  IF v.dt # "Struct" THEN mismatch
        ELSE IfSome2(column_by_name(v, "real"), column_by_name(v, "imag"),
                LAMBDA real_col, imag_col :
             IfOk2(to_str("", real_col), to_str("", imag_col),
                LAMBDA real, imag :
             Try(Collect([i \in 1..Min(Len(real), Len(imag)) |->
                            ComplexRow(v, i, real[i], imag[i])]),
                 LAMBDA res : Ok(SelectSeq(res, LAMBDA o : o.some))),
             mismatch), mismatch)

to_complex(name, v) ==
    LET mismatch == Err("Expected to be { real: str, imag: str }", <<name, v.dt>>)
    IN  IF v.dt # "Struct" THEN mismatch
        ELSE IfSome2(column_by_name(v, "real"), column_by_name(v, "imag"),
                LAMBDA real_col, imag_col :
             IfOk2(to_str("", real_col), to_str("", imag_col),
                LAMBDA real, imag :
             Collect([i \in 1..Min(Len(real), Len(imag)) |->
                        ComplexRow(v, i, real[i], imag[i])]),
             mismatch), mismatch)

SeriesPoint(n, value, deviation) == [n |-> n, value |-> value, deviation |-> deviation]

\* one pass of to_series_point's loop
SeriesPointRow(n, value, deviation) ==
    Try(context(n, "n not provided"), LAMBDA n1 :
    Try(context(value, "value not provided"), LAMBDA value1 :
    Try(context(deviation, "deviation not provided"), LAMBDA deviation_str :
    Try(parse_scientific(deviation_str), LAMBDA deviation1 :
    Ok(SeriesPoint(AsI32(n1), value1, deviation1))))))

to_series_point(name, v) ==
    LET mismatch ==
            Err("Expected to be { n: int, value: { real: str, imag: str }, deviation: str }",
                <<name, v.dt>>)
    IN  IF v.dt # "Struct" THEN mismatch
        ELSE IfSome3(column_by_name(v, "n"), column_by_name(v, "value"),
                     column_by_name(v, "deviation"),
                LAMBDA n_col, value_col, deviation_col :
             IfOk3(to_i64("", n_col), to_complex("", value_col), to_str("", deviation_col),
                LAMBDA n, value, deviation :
             Collect([i \in 1..Min(Min(Len(n), Len(value)), Len(deviation)) |->
                        SeriesPointRow(n[i], value[i], deviation[i])]),
             mismatch), mismatch)

ErrorInfo(n, message) == [n |-> n, message |-> message]

\* one pass of to_error_info's loop
ErrorInfoRow(n, message) ==
    Try(context(n, "n not provided"), LAMBDA n1 :
    Try(context(message, "message not provided"), LAMBDA message1 :
    Ok(ErrorInfo(AsI32(n1), message1))))

to_error_info(name, v) ==
    LET mismatch == Err("Expected to be { n: int, message: str }", <<name, v.dt>>)
    IN  IF v.dt # "Struct" THEN mismatch
        ELSE IfSome2(column_by_name(v, "n"), column_by_name(v, "message"),
                LAMBDA n_col, message_col :
             IfOk2(to_i64("", n_col), to_str("", message_col),
                LAMBDA n, message :
             Collect([i \in 1..Min(Len(n), Len(message)) |-> ErrorInfoRow(n[i], message[i])]),
             mismatch), mismatch)

EventInfo(n, name, description) == [n |-> n, name |-> name, description |-> description]

\* one pass of to_event_info's loop
EventInfoRow(n, name_field, description) ==
    Try(context(n, "n not provided"), LAMBDA n1 :
    Try(context(name_field, "name not provided"), LAMBDA name1 :
    Try(context(description, "description not provided"), LAMBDA description1 :
    Ok(EventInfo(AsI32(n1), name1, description1)))))

to_event_info(name, v) ==
    LET mismatch == Err("Expected to be { n: int, name: str, description: str }", <<name, v.dt>>)
    IN  IF v.dt # "Struct" THEN mismatch
        ELSE IfSome3(column_by_name(v, "n"), column_by_name(v, "name"),
                     column_by_name(v, "description"),
                LAMBDA n_col, name_col, description_col :
             IfOk3(to_i64("", n_col), to_str("", name_col), to_str("", description_col),
                LAMBDA n, name_field, description :
             Collect([i \in 1..Min(Min(Len(n), Len(name_field)), Len(description)) |->
                        EventInfoRow(n[i], name_field[i], description[i])]),
             mismatch), mismatch)

AccelPoint(value, deviation) == [value |-> value, deviation |-> deviation]

\* to_accel_point's loop body putting the default complex number for a null value
AccelPointRow_DefaultValue(v, i, value, deviation) ==
    IF IsNull(v, i) THEN Ok(None)
    ELSE Try(context(deviation, "no deviation in accel point"), LAMBDA deviation_str :
         Try(parse_scientific(deviation_str), LAMBDA deviation1 :
         Ok(Some(AccelPoint(unwrap_or(value, ComplexNumber(Zero, Zero)), deviation1)))))

\* one pass of to_accel_point's loop: row i with its value and deviation cells
AccelPointRow(v, i, value, deviation) ==
    IF IsNull(v, i) THEN Ok(None)
    ELSE Try(context(deviation, "no deviation in accel point"), LAMBDA deviation_str :
         Try(parse_scientific(deviation_str), LAMBDA deviation1 :
         Try(context(value, "no value in accel point"), LAMBDA value1 :
         Ok(Some(AccelPoint(value1, deviation1))))))

to_accel_point(name, v) ==
    LET mismatch ==
            Err("Expected to be { value: { real: str, imag: str }, deviation: str }",
                <<name, v.dt>>)
    IN  IF v.dt # "Struct" THEN mismatch
        ELSE IfSome2(column_by_name(v, "value"), column_by_name(v, "deviation"),
                LAMBDA value_col, deviation_col :
             IfOk2(to_complex("", value_col), to_str("", deviation_col),
                LAMBDA value, deviation :
             Collect([i \in 1..Min(Len(value), Len(deviation)) |->
                        AccelPointRow(v, i, value[i], deviation[i])]),
             mismatch), mismatch)

\* the per-element decoders the loader hands to to_list, by name
Decoders == {"to_series_point", "to_accel_point", "to_error_info", "to_event_info"}

\* the closure |x| to_...("....[]", x) of that name, applied to the slice x
Decode(f, x) ==
    CASE f = "to_series_point" -> to_series_point("computed.[]", x)
      [] f = "to_accel_point" -> to_accel_point("computed.[]", x)
      [] f = "to_error_info" -> to_error_info("errors.[]", x)
      [] f = "to_event_info" -> to_event_info("events.[]", x)

\* to_list's loop taking a list without elements for a null cell
ListRows_EmptyAsNone(x, f) ==
    Collect([i \in 1..Len(x.cells) |->
                IF x.cells[i].some /\ ArrLen(x.cells[i].v) > 0
                THEN Try(Decode(f, x.cells[i].v), LAMBDA r : Ok(Some(r)))
                ELSE Ok(None)])

\* the body of to_list's loop over the rows of a list array
ListRows(x, f) ==
    Collect([i \in 1..Len(x.cells) |->
                IF x.cells[i].some
                THEN Try(Decode(f, x.cells[i].v), LAMBDA r : Ok(Some(r)))
                ELSE Ok(None)])

\* to_list answering an unknown encoding with an empty result
to_list_SilentEmpty(name, v, f) ==
    IF v.dt \in ListTypes THEN ListRows(v, f)
    ELSE IF v.dt = "Null" THEN Ok([i \in 1..v.len |-> None])
    ELSE Ok(<<>>)

to_list(name, v, f) ==
    IF v.dt = "List" THEN ListRows(v, f)
    ELSE IF v.dt = "LargeList" THEN ListRows(v, f)
    ELSE IF v.dt = "ListView" THEN ListRows(v, f)
    ELSE IF v.dt = "LargeListView" THEN ListRows(v, f)
    ELSE IF v.dt = "Null" THEN Ok([i \in 1..v.len |-> None])
    ELSE Err("Expected to be list", <<name, v.dt>>)

(***************************************************************************)
(* The loader.  The batches are the batches the query of the table has     *)
(* returned; the filters of the call went into that query.                 *)
(***************************************************************************)
RecordBatch(names, columns, num_rows) ==
    [names |-> names, columns |-> columns, num_rows |-> num_rows]

\* HashMap::new()
EmptyMap == [key \in {} |-> <<>>]

AccelInfo(name, m_value, additional_args) ==
    [name |-> name, m_value |-> m_value, additional_args |-> additional_args]

AccelRecord(accel_info, computed, errors, events) ==
    [accel_info |-> accel_info, computed |-> computed, errors |-> errors, events |-> events]

SeriesRecord(precision, series_id, name, arguments, series_limit, computed) ==
    [precision |-> precision, series_id |-> series_id, name |-> name,
     arguments |-> arguments, series_limit |-> series_limit, computed |-> computed]

\* ComplexNumber::default()
DefaultComplex == ComplexNumber(Zero, Zero)

\* the rows of all batches, one after the other
RECURSIVE Flatten(_)
Flatten(ss) == IF ss = <<>> THEN <<>> ELSE Head(ss) \o Flatten(Tail(ss))

\* the optional list column refusing a null cell
ListOrDefault_NullFails(batch, name, f) ==
    IF column_by_name(batch, name).some
    THEN Try(to_list(name, column_by_name(batch, name).v, f),
             LAMBDA l : Collect([i \in 1..Len(l) |-> context(l[i], "list is null")]))
    ELSE Ok([i \in 1..batch.num_rows |-> <<>>])

\* to_list(name, col, f)?.into_iter().map(|opt| opt.unwrap_or_default()),
\* or one empty vector per row when the batch has no such column
ListOrDefault(batch, name, f) ==
    IF column_by_name(batch, name).some
    THEN Try(to_list(name, column_by_name(batch, name).v, f),
             LAMBDA l : Ok([i \in 1..Len(l) |-> unwrap_or(l[i], <<>>)]))
    ELSE Ok([i \in 1..batch.num_rows |-> <<>>])

\* the body of the loop over the zipped columns of an accelerations batch:
\* the key of the row and its record
AccelRow(series_id, accel_name, m_value, additional_args, computed, errors, events) ==
    Try(context(series_id, "series_id is null"), LAMBDA series_id1 :
    Try(context(accel_name, "accel_name is null"), LAMBDA accel_name1 :
    Try(context(m_value, "m_value is null"), LAMBDA m_value1 :
    Try(context(computed, "computed is null"), LAMBDA computed1 :
    Ok([series_id |-> AsI32(series_id1),
        accel_record |-> AccelRecord(AccelInfo(accel_name1, AsI32(m_value1), additional_args),
                                     computed1, errors, events)])))))

\* batch.column_by_name(name).context(missing)?, then the extractor on it
Required(batch, name, missing, Extract(_, _)) ==
    Try(context(column_by_name(batch, name), missing), LAMBDA col : Extract(name, col))

\* the length of the shortest of the sequences cs: where a zip chain ends
RECURSIVE Shortest(_)
Shortest(cs) ==
    IF Len(cs) = 1 THEN Len(cs[1]) ELSE Min(Len(Head(cs)), Shortest(Tail(cs)))

\* one pass of the loop over the accelerations batches: the columns in the
\* order in which the code extracts them, then the loop over their rows
AccelBatch(batch) ==
    Try(Collect(<<
            Required(batch, "series_id", "No series_id in accelerations", to_i64),
            Required(batch, "accel_name", "No accel_name in accelerations", to_str),
            Required(batch, "m_value", "No m_value in accelerations", to_i64),
            IF column_by_name(batch, "additional_args").some
            THEN to_struct_str("additional_args", column_by_name(batch, "additional_args").v)
            ELSE Ok([i \in 1..batch.num_rows |-> EmptyMap]),
            Try(context(column_by_name(batch, "computed"), "No computed in accelerations"),
                LAMBDA col : to_list("computed", col, "to_accel_point")),
            ListOrDefault(batch, "errors", "to_error_info"),
            ListOrDefault(batch, "events", "to_event_info") >>),
        LAMBDA c :
    Collect([i \in 1..Shortest(c) |->
                AccelRow(c[1][i], c[2][i], c[3][i], c[4][i], c[5][i], c[6][i], c[7][i])]))

\* the grouping with every record put in front of its group
RECURSIVE Grouped_PushFront(_, _)
Grouped_PushFront(result, rows) ==
    IF rows = <<>> THEN result
    ELSE LET series_id == Head(rows).series_id
             accel_record == Head(rows).accel_record
         IN  Grouped_PushFront(IF series_id \in DOMAIN result
                               THEN [result EXCEPT ![series_id] = <<accel_record>> \o @]
                               ELSE result @@ (series_id :> <<accel_record>>),
                               Tail(rows))

\* result.entry(series_id).or_default().push(accel_record), row after row
RECURSIVE Grouped(_, _)
Grouped(result, rows) ==
    IF rows = <<>> THEN result
    ELSE LET series_id == Head(rows).series_id
             accel_record == Head(rows).accel_record
         IN  Grouped(IF series_id \in DOMAIN result
                     THEN [result EXCEPT ![series_id] = Append(@, accel_record)]
                     ELSE result @@ (series_id :> <<accel_record>>),
                     Tail(rows))

\* the loop over the batches going on with the next batch when one fails
load_accelerations_SkipFailed(batches) ==
    LET RECURSIVE rows(_)
        rows(b) == IF b = 0 THEN <<>>
                   ELSE IF AccelBatch(batches[b]).ok
                        THEN rows(b - 1) \o AccelBatch(batches[b]).val
                        ELSE rows(b - 1)
    IN  Ok(Grouped(<<>>, rows(Len(batches))))

\* batches: what the query for series_ids and the filters has returned
load_accelerations_for_multiple_series(batches) ==
    Try(Collect([b \in 1..Len(batches) |-> AccelBatch(batches[b])]),
        LAMBDA rows : Ok(Grouped(<<>>, Flatten(rows))))

\* the body of the loop over the zipped columns of a series batch
SeriesRow(precision, series_id, series_name, arguments, series_limit, computed) ==
    Try(context(precision, "precision is null"), LAMBDA precision1 :
    Try(context(series_id, "series_id is null"), LAMBDA series_id1 :
    Try(context(series_name, "name is null"), LAMBDA series_name1 :
    Try(context(computed, "computed is null"), LAMBDA computed1 :
    Ok(SeriesRecord(precision1, AsI32(series_id1), series_name1, arguments,
                    unwrap_or(series_limit, DefaultComplex), computed1))))))

\* one pass of the loop over the series batches: the columns in the order in
\* which the code extracts them, then the loop over their rows
SeriesBatch(batch) ==
    Try(Collect(<<
            Required(batch, "precision", "No precision in series", to_str),
            Required(batch, "series_id", "No series_id in series", to_i64),
            Required(batch, "series_name", "No series_name in series", to_str),
            Required(batch, "arguments", "No arguments in series", to_struct_str),
            Required(batch, "series_limit", "No series_limit in series", to_complex),
            Try(context(column_by_name(batch, "computed"), "No computed in series"),
                LAMBDA col : to_list("computed", col, "to_series_point")) >>),
        LAMBDA c :
    Collect([i \in 1..Shortest(c) |->
                SeriesRow(c[1][i], c[2][i], c[3][i], c[4][i], c[5][i], c[6][i])]))

\* the lookup handing out the first record of the group only
Accels_FirstOnly(accelerations_map, series_id) ==
    IF series_id \in DOMAIN accelerations_map
    THEN <<Head(accelerations_map[series_id])>>
    ELSE <<>>

\* accelerations_map.get(&series_record.series_id).cloned().unwrap_or_default()
Accels(accelerations_map, series_id) ==
    IF series_id \in DOMAIN accelerations_map THEN accelerations_map[series_id] ELSE <<>>

\* filter_data keeping one series row per series_id, the first one read
filter_data_OnePerId(series, accelerations) ==
    Try(Collect([b \in 1..Len(series) |-> SeriesBatch(series[b])]), LAMBDA rows :
    Try(IF Flatten(rows) # <<>>
        THEN load_accelerations_for_multiple_series(accelerations)
        ELSE Ok(<<>>), LAMBDA accelerations_map :
    LET all == Flatten(rows)
        first(k) == \A h \in 1..(k - 1) : all[h].series_id # all[k].series_id
        RECURSIVE kept(_)
        kept(k) == IF k = 0 THEN <<>>
                   ELSE IF first(k) THEN Append(kept(k - 1), all[k]) ELSE kept(k - 1)
    IN  Ok([k \in 1..Len(kept(Len(all))) |->
                <<kept(Len(all))[k],
                  Accels(accelerations_map, kept(Len(all))[k].series_id)>>])))

\* series: the batches the series query has returned; accelerations: the
\* batches the accelerations query returns
filter_data(series, accelerations) ==
    Try(Collect([b \in 1..Len(series) |-> SeriesBatch(series[b])]), LAMBDA rows :
    Try(IF Flatten(rows) # <<>>
        THEN load_accelerations_for_multiple_series(accelerations)
        ELSE Ok(<<>>), LAMBDA accelerations_map :
    Ok([k \in 1..Len(Flatten(rows)) |->
            <<Flatten(rows)[k], Accels(accelerations_map, Flatten(rows)[k].series_id)>>])))

(***************************************************************************)
(* The quick filter of the dashboard (app.rs).                             *)
(***************************************************************************)
Filters(precisions, base_series, base_accel, m_values, accel_params, series_params) ==
    [precisions |-> precisions, base_series |-> base_series, base_accel |-> base_accel,
     m_values |-> m_values, accel_params |-> accel_params, series_params |-> series_params]

\* Filters::default()
DefaultFilters == Filters({}, {}, {}, {}, EmptyMap, EmptyMap)

\* params.is_empty() || params.iter().all(|(param_name, allowed_values)|
\*     args.get(param_name).map(|value| allowed_values.contains(value)).unwrap_or(false))
ParamsMatch(params, args) ==
    \/ DOMAIN params = {}
    \/ \A param_name \in DOMAIN params :
            IF param_name \in DOMAIN args
            THEN args[param_name] \in params[param_name]
            ELSE FALSE

\* the series-level part of the closure handed to filter()
SeriesMatch(filters, series) ==
    LET precision_match ==
            filters.precisions = {} \/ series.precision \in filters.precisions
        series_match ==
            filters.base_series = {} \/ series.name \in filters.base_series
        series_params_match == ParamsMatch(filters.series_params, series.arguments)
    IN  ~(~precision_match \/ ~series_match \/ ~series_params_match)

\* the closure on one acceleration record (the one of any() and the one of
\* the inner filter() are the same text)
AccelMatch(filters, accel_record) ==
    LET accel_match ==
            filters.base_accel = {} \/ accel_record.accel_info.name \in filters.base_accel
        m_value_match ==
            filters.m_values = {} \/ accel_record.accel_info.m_value \in filters.m_values
        accel_params_match ==
            ParamsMatch(filters.accel_params, accel_record.accel_info.additional_args)
    IN  accel_match /\ m_value_match /\ accel_params_match

\* accel_records.iter().filter(..).collect()
RECURSIVE MatchingAccels(_, _)
MatchingAccels(filters, accel_records) ==
    IF accel_records = <<>> THEN <<>>
    ELSE IF AccelMatch(filters, Head(accel_records))
         THEN <<Head(accel_records)>> \o MatchingAccels(filters, Tail(accel_records))
         ELSE MatchingAccels(filters, Tail(accel_records))

\* data_items.iter().filter(..).map(..).collect() with every record kept in
\* the map step
RECURSIVE FilteredItems_AllAccels(_, _)
FilteredItems_AllAccels(filters, data_items) ==
    IF data_items = <<>> THEN <<>>
    ELSE LET series == Head(data_items)[1]
             accel_records == Head(data_items)[2]
         IN  IF /\ SeriesMatch(filters, series)
                /\ \E k \in 1..Len(accel_records) : AccelMatch(filters, accel_records[k])
             THEN <<<<series, accel_records>>>>
                      \o FilteredItems_AllAccels(filters, Tail(data_items))
             ELSE FilteredItems_AllAccels(filters, Tail(data_items))

\* data_items.iter().filter(..).map(..).collect()
RECURSIVE FilteredItems(_, _)
FilteredItems(filters, data_items) ==
    IF data_items = <<>> THEN <<>>
    ELSE LET series == Head(data_items)[1]
             accel_records == Head(data_items)[2]
         IN  IF /\ SeriesMatch(filters, series)
                /\ \E k \in 1..Len(accel_records) : AccelMatch(filters, accel_records[k])
             THEN <<<<series, MatchingAccels(filters, accel_records)>>>>
                      \o FilteredItems(filters, Tail(data_items))
             ELSE FilteredItems(filters, Tail(data_items))

\* FilteredData::filter_data_items; the references of the result are
\* written as the records they point to
filter_data_items(data_items, filters) ==
    IF /\ filters.precisions = {}
       /\ filters.base_series = {}
       /\ filters.base_accel = {}
       /\ filters.m_values = {}
       /\ DOMAIN filters.series_params = {}
       /\ DOMAIN filters.accel_params = {}
    THEN [k \in 1..Len(data_items) |-> <<data_items[k][1], data_items[k][2]>>]
    ELSE FilteredItems(filters, data_items)

\* the values of the field called field over the series of the entries
SeriesValues(entries, field) == { entries[i][1][field] : i \in 1..Len(entries) }

\* the map filterable collects from the argument maps ms: every key with
\* the set of its values
ParamValues(ms) ==
    [key \in UNION { DOMAIN m : m \in ms } |-> { m[key] : m \in { x \in ms : key \in DOMAIN x } }]

\* "Only keep parameters that have multiple values"
SeveralValues(params) ==
    [key \in { k \in DOMAIN params : Cardinality(params[k]) > 1 } |-> params[key]]

\* the set when it has more than one value, else the empty set
Several(values) == IF Cardinality(values) > 1 THEN values ELSE {}

\* filterable: what the quick filter offers for the entries
filterable(entries) ==
    LET records == UNION { { entries[i][2][k] : k \in 1..Len(entries[i][2]) } :
                            i \in 1..Len(entries) }
    IN  Filters(Several(SeriesValues(entries, "precision")),
                Several(SeriesValues(entries, "name")),
                Several({ r.accel_info.name : r \in records }),
                Several({ r.accel_info.m_value : r \in records }),
                SeveralValues(ParamValues({ r.accel_info.additional_args : r \in records })),
                SeveralValues(ParamValues(SeriesValues(entries, "arguments"))))

\* FilteredData::new: the four views are closures over the filtered items
\* and the symlog flag, written here as the two
FilteredData(data_items, selected_filters, symlog_flag) ==
    [selected_filters |-> selected_filters,
     views |-> [filtered |-> filter_data_items(data_items, selected_filters),
                symlog |-> symlog_flag]]

\* Data::new
Data(data_items, symlog_flag) ==
    [data |-> data_items,
     available_filters |-> filterable(data_items),
     filtered |-> FilteredData(data_items, DefaultFilters, symlog_flag)]

\* a checkbox of a set of values changes: the value is inserted or removed
Toggled(selected, value) ==
    IF value \in selected THEN selected \ {value} ELSE selected \cup {value}

\* a checkbox of a parameter changes: the value is inserted, with a new entry
\* when the parameter has none, or removed, and the entry with it when its
\* set becomes empty
ToggledParam(params, param_name, value) ==
    LET set == Toggled(IF param_name \in DOMAIN params THEN params[param_name] ELSE {},
                       value)
    IN  IF set = {}
        THEN [k \in DOMAIN params \ {param_name} |-> params[k]]
        ELSE [k \in DOMAIN params \cup {param_name} |->
                IF k = param_name THEN set ELSE params[k]]

\* dynamic_ui_filter_section: the selections one changed checkbox leads to
Selections(available, selected) ==
    { [selected EXCEPT !.precisions = Toggled(@, x)] : x \in available.precisions }
    \cup { [selected EXCEPT !.base_series = Toggled(@, x)] : x \in available.base_series }
    \cup { [selected EXCEPT !.base_accel = Toggled(@, x)] : x \in available.base_accel }
    \cup { [selected EXCEPT !.m_values = Toggled(@, x)] : x \in available.m_values }
    \cup UNION { { [selected EXCEPT !.series_params = ToggledParam(@, k, x)] :
                        x \in available.series_params[k] } :
                  k \in DOMAIN available.series_params }
    \cup UNION { { [selected EXCEPT !.accel_params = ToggledParam(@, k, x)] :
                        x \in available.accel_params[k] } :
                  k \in DOMAIN available.accel_params }

(***************************************************************************)
(* The columns the extractors are called on.                               *)
(***************************************************************************)
SeqsUpTo(S, n) == UNION {[1..k -> S] : k \in 0..n}

T_a == <<"a">>

T_c == <<"c">>

T_1p5 == <<"1", ".", "5">>

T_2e3 == <<"2", "e", "3">>

T_x == <<"x">>

T_empty == <<>>

\* the physical encodings of the string and integer children of one struct
Encodings ==
    { [str |-> "Utf8", int |-> "Int32"],
      [str |-> "LargeUtf8", int |-> "Int64"],
      [str |-> "Utf8View", int |-> "UInt8"] }

PointEncodings == {e \in Encodings : e.str # "LargeUtf8"}

OtherTypes == {"Float64", "Boolean"}

Column(rows, f) == [i \in 1..Len(rows) |-> rows[i][f]]

StrCells == {None, Some(T_a), Some(T_c)}

IntCells == {None, Some(0), Some(7)}

RealCells == {None, Some(T_1p5), Some(T_x)}

ImagCells == {None, Some(T_empty), Some(T_2e3)}

DevCells == {None, Some(T_1p5), Some(T_x)}

ComplexRows == [valid : BOOLEAN, real : RealCells, imag : ImagCells]

\* the rows of the `value` child of a point: a null row, a row without real,
\* a row with a number and a row with text that is no number
ValueRows ==
    { [valid |-> FALSE, real |-> None, imag |-> None],
      [valid |-> TRUE, real |-> None, imag |-> None],
      [valid |-> TRUE, real |-> Some(T_1p5), imag |-> None],
      [valid |-> TRUE, real |-> Some(T_x), imag |-> Some(T_2e3)] }

ComplexCol(enc, rows) ==
    StructArray(Column(rows, "valid"), <<"real", "imag">>,
                <<StringArray(enc.str, Column(rows, "real")),
                  StringArray(enc.str, Column(rows, "imag"))>>)

SeriesPointRows == [n : {None, Some(7)}, value : ValueRows, deviation : DevCells]

SeriesPointCol(enc, rows) ==
    StructArray([i \in 1..Len(rows) |-> TRUE], <<"n", "value", "deviation">>,
                <<PrimitiveArray(enc.int, Column(rows, "n")),
                  ComplexCol(enc, Column(rows, "value")),
                  StringArray(enc.str, Column(rows, "deviation"))>>)

AccelPointRows == [valid : BOOLEAN, value : ValueRows, deviation : DevCells]

AccelPointCol(enc, rows) ==
    StructArray(Column(rows, "valid"), <<"value", "deviation">>,
                <<ComplexCol(enc, Column(rows, "value")),
                  StringArray(enc.str, Column(rows, "deviation"))>>)

ErrorInfoRows == [n : {None, Some(7)}, message : {None, Some(T_a)}]

ErrorInfoCol(enc, rows) ==
    StructArray([i \in 1..Len(rows) |-> TRUE], <<"n", "message">>,
                <<PrimitiveArray(enc.int, Column(rows, "n")),
                  StringArray(enc.str, Column(rows, "message"))>>)

EventInfoRows == [n : {None, Some(7)}, name : {None, Some(T_a)}, description : {None, Some(T_c)}]

EventInfoCol(enc, rows) ==
    StructArray([i \in 1..Len(rows) |-> TRUE], <<"n", "name", "description">>,
                <<PrimitiveArray(enc.int, Column(rows, "n")),
                  StringArray(enc.str, Column(rows, "name")),
                  StringArray(enc.str, Column(rows, "description"))>>)

\* a bag of key/value arguments: the children "p" and "q", the second one
\* possibly in another encoding than the first
ArgRows == [valid : BOOLEAN, p : StrCells, q : StrCells]

ArgCol(enc, rows) ==
    StructArray(Column(rows, "valid"), <<"p", "q">>,
                <<StringArray(enc.str, Column(rows, "p")),
                  StringArray("Utf8", Column(rows, "q"))>>)

\* The struct s with one child changed: dropped, replaced by an untyped
\* all-null array, or replaced by an array of a type no extractor knows.
Without(s, j) ==
    [s EXCEPT !.names = [i \in 1..(Len(s.names) - 1) |-> s.names[IF i < j THEN i ELSE i + 1]],
              !.columns = [i \in 1..(Len(s.columns) - 1) |-> s.columns[IF i < j THEN i ELSE i + 1]]]

Variants(s) ==
    UNION { { Without(s, j),
              [s EXCEPT !.columns[j] = NullArray(ArrLen(s))] }
            \cup { [s EXCEPT !.columns[j] = OtherArray(dt, ArrLen(s))] : dt \in OtherTypes }
          : j \in 1..Len(s.names) }

\* arrays that are no struct
Flat ==
    { NullArray(n) : n \in 0..MaxRows }
    \cup { OtherArray(dt, n) : dt \in OtherTypes, n \in 0..1 }
    \cup { StringArray("Utf8", <<Some(T_1p5)>>), PrimitiveArray("Int32", <<Some(7)>>),
           ListArray("List", <<None>>) }

Structs(Col(_, _), Rows, encs) ==
    LET short == { Col(CHOOSE e \in encs : TRUE, rows) : rows \in SeqsUpTo(Rows, 1) }
    IN  { Col(enc, rows) : enc \in encs, rows \in SeqsUpTo(Rows, MaxStructRows) }
        \cup UNION { Variants(s) : s \in short }

StrInputs ==
    { StringArray(dt, cells) : dt \in StringTypes, cells \in SeqsUpTo(StrCells, MaxRows) }
    \cup Flat \cup { ComplexCol(enc, <<>>) : enc \in Encodings }

I64Inputs ==
    { PrimitiveArray(dt, cells) : dt \in IntTypes, cells \in SeqsUpTo(IntCells, MaxRows) }
    \cup UNION { { PrimitiveArray(dt, <<Some(MinOf(dt))>>),
                    PrimitiveArray(dt, <<Some(MaxOf(dt))>>) } : dt \in IntTypes }
    \cup Flat \cup { ComplexCol(enc, <<>>) : enc \in Encodings }

StructStrInputs == Structs(ArgCol, ArgRows, Encodings) \cup Flat

ComplexInputs == Structs(ComplexCol, ComplexRows, Encodings) \cup Flat

\* one series point whose n, a 64-bit cell, is the least or the greatest i32
\* or lies just outside the i32 range
WidePoints ==
    { SeriesPointCol([str |-> "Utf8", int |-> "Int64"],
                     <<[n |-> Some(x), deviation |-> Some(T_1p5),
                        value |-> [valid |-> TRUE, real |-> Some(T_1p5), imag |-> None]]>>) :
        x \in {MinOf("Int32") - 1, MinOf("Int32"), MaxOf("Int32"), MaxOf("Int32") + 1} }

SeriesPointInputs ==
    Structs(SeriesPointCol, SeriesPointRows, PointEncodings) \cup Flat \cup WidePoints

AccelPointInputs == Structs(AccelPointCol, AccelPointRows, PointEncodings) \cup Flat

ErrorInfoInputs == Structs(ErrorInfoCol, ErrorInfoRows, Encodings) \cup Flat

EventInfoInputs == Structs(EventInfoCol, EventInfoRows, Encodings) \cup Flat

Utf8Int32 == [str |-> "Utf8", int |-> "Int32"]

\* the slices a list cell can hold: no element, one element that decodes,
\* one element that does not decode
Slices(d) ==
    CASE d = "to_series_point" ->
            { SeriesPointCol(Utf8Int32, <<>>),
              SeriesPointCol(Utf8Int32, <<[n |-> Some(7), deviation |-> Some(T_1p5),
                    value |-> [valid |-> TRUE, real |-> Some(T_1p5), imag |-> None]]>>),
              SeriesPointCol(Utf8Int32, <<[n |-> None, deviation |-> Some(T_1p5),
                    value |-> [valid |-> TRUE, real |-> Some(T_1p5), imag |-> None]]>>) }
      [] d = "to_accel_point" ->
            { AccelPointCol(Utf8Int32, <<>>),
              AccelPointCol(Utf8Int32, <<[valid |-> FALSE, deviation |-> None,
                    value |-> [valid |-> FALSE, real |-> None, imag |-> None]]>>),
              AccelPointCol(Utf8Int32, <<[valid |-> TRUE, deviation |-> None,
                    value |-> [valid |-> TRUE, real |-> Some(T_1p5), imag |-> None]]>>) }
      [] d = "to_error_info" ->
            { ErrorInfoCol(Utf8Int32, <<>>),
              ErrorInfoCol(Utf8Int32, <<[n |-> Some(7), message |-> Some(T_a)]>>),
              ErrorInfoCol(Utf8Int32, <<[n |-> Some(7), message |-> None]>>) }
      [] d = "to_event_info" ->
            { EventInfoCol(Utf8Int32, <<>>),
              EventInfoCol(Utf8Int32, <<[n |-> Some(7), name |-> Some(T_a), description |-> Some(T_c)]>>),
              EventInfoCol(Utf8Int32, <<[n |-> Some(7), name |-> None, description |-> Some(T_c)]>>) }

ListInputs(d) ==
    { ListArray(dt, cells) :
        dt \in ListTypes, cells \in SeqsUpTo({None} \cup {Some(x) : x \in Slices(d)}, MaxRows) }
    \cup Flat \cup { ComplexCol(enc, <<>>) : enc \in Encodings }

\* The ways to cut the rows rs of a table into non-empty batches.
RECURSIVE Splits(_)
Splits(rs) ==
    IF rs = <<>> THEN {<<>>}
    ELSE UNION { { <<SubSeq(rs, 1, k)>> \o t : t \in Splits(SubSeq(rs, k + 1, Len(rs))) }
                 : k \in 1..Len(rs) }

\* s without its column called name, and s with that column replaced by c
Drop(s, name) ==
    LET j == FirstIn(s.names, {name})
    IN  [s EXCEPT !.names = [i \in 1..(Len(s.names) - 1) |-> s.names[IF i < j THEN i ELSE i + 1]],
                  !.columns = [i \in 1..(Len(s.columns) - 1) |->
                                    s.columns[IF i < j THEN i ELSE i + 1]]]

Retyped(s, name, c) == [s EXCEPT !.columns[FirstIn(s.names, {name})] = c]

\* a slice of one series point that decodes
PointSlice ==
    SeriesPointCol(Utf8Int32, <<[n |-> Some(7), deviation |-> Some(T_1p5),
            value |-> [valid |-> TRUE, real |-> Some(T_1p5), imag |-> None]]>>)

\* a slice of two accel points: a null row and a point
AccelSlice ==
    AccelPointCol(Utf8Int32,
        << [valid |-> FALSE, deviation |-> None,
            value |-> [valid |-> FALSE, real |-> None, imag |-> None]],
           [valid |-> TRUE, deviation |-> Some(T_1p5),
            value |-> [valid |-> TRUE, real |-> Some(T_1p5), imag |-> None]] >>)

\* a slice of one accel point without deviation, which does not decode
BadAccelSlice ==
    AccelPointCol(Utf8Int32, <<[valid |-> TRUE, deviation |-> None,
            value |-> [valid |-> TRUE, real |-> Some(T_1p5), imag |-> None]]>>)

ErrorSlice == ErrorInfoCol(Utf8Int32, <<[n |-> Some(7), message |-> Some(T_a)]>>)

\* the rows of the series table
GoodSeries(id) ==
    [precision |-> Some(T_a), series_id |-> Some(id), series_name |-> Some(T_c),
     arguments |-> [valid |-> TRUE, p |-> Some(T_a), q |-> None],
     series_limit |-> [valid |-> TRUE, real |-> Some(T_1p5), imag |-> None],
     computed |-> Some(PointSlice)]

NullLimit == [GoodSeries(1) EXCEPT !.series_limit.valid = FALSE]

PlainSeriesRows == {GoodSeries(1), GoodSeries(2), NullLimit}

SeriesRows ==
    PlainSeriesRows
    \cup { [GoodSeries(1) EXCEPT !.precision = None],
           [GoodSeries(1) EXCEPT !.series_id = None],
           [GoodSeries(1) EXCEPT !.series_id = Some(MaxOf("Int32") + 1)],
           [GoodSeries(1) EXCEPT !.series_name = None],
           [GoodSeries(1) EXCEPT !.computed = None] }

SeriesColumns == <<"precision", "series_id", "series_name", "arguments", "series_limit", "computed">>

SeriesBatchOf(rows) ==
    RecordBatch(SeriesColumns,
                <<StringArray("Utf8", Column(rows, "precision")),
                  PrimitiveArray("Int64", Column(rows, "series_id")),
                  StringArray("LargeUtf8", Column(rows, "series_name")),
                  ArgCol(Utf8Int32, Column(rows, "arguments")),
                  ComplexCol(Utf8Int32, Column(rows, "series_limit")),
                  ListArray("List", Column(rows, "computed"))>>,
                Len(rows))

\* the results of a query: the rows, up to n of them, cut into batches
Tables(Rows, n, BatchOf(_)) ==
    UNION { { [b \in 1..Len(cut) |-> BatchOf(cut[b])] : cut \in Splits(rs) }
            : rs \in SeqsUpTo(Rows, n) }

\* one batch of one good row with a column missing or of another type
OddSeriesTables ==
    LET s == SeriesBatchOf(<<GoodSeries(1)>>)
    IN  { <<Drop(s, name)>> : name \in {SeriesColumns[i] : i \in 1..Len(SeriesColumns)} }
        \cup { <<Retyped(s, "arguments", NullArray(1))>>,
               <<Retyped(s, "series_id", StringArray("Utf8", <<Some(T_1p5)>>))>>,
               <<SeriesBatchOf(<<>>)>> }

\* the rows of the accelerations table
GoodAccel(id, name) ==
    [series_id |-> Some(id), accel_name |-> Some(name), m_value |-> Some(2),
     additional_args |-> [valid |-> TRUE, p |-> None, q |-> Some(T_c)],
     computed |-> Some(AccelSlice), errors |-> Some(ErrorSlice), events |-> None]

PlainAccelRows == {GoodAccel(1, T_a), GoodAccel(1, T_c), GoodAccel(2, T_a)}

AccelRows ==
    PlainAccelRows
    \cup { [GoodAccel(1, T_a) EXCEPT !.series_id = None],
           [GoodAccel(1, T_a) EXCEPT !.series_id = Some(MaxOf("Int32") + 2)],
           [GoodAccel(1, T_a) EXCEPT !.accel_name = None],
           [GoodAccel(1, T_a) EXCEPT !.m_value = None],
           [GoodAccel(1, T_a) EXCEPT !.m_value = Some(MinOf("Int32") - 1)],
           [GoodAccel(1, T_a) EXCEPT !.computed = None],
           [GoodAccel(1, T_a) EXCEPT !.computed = Some(BadAccelSlice)],
           [GoodAccel(1, T_a) EXCEPT !.errors = None] }

AccelColumns ==
    <<"series_id", "accel_name", "m_value", "additional_args", "computed", "errors", "events">>

AccelBatchOf(rows) ==
    RecordBatch(AccelColumns,
                <<PrimitiveArray("Int64", Column(rows, "series_id")),
                  StringArray("Utf8View", Column(rows, "accel_name")),
                  PrimitiveArray("Int64", Column(rows, "m_value")),
                  ArgCol(Utf8Int32, Column(rows, "additional_args")),
                  ListArray("LargeList", Column(rows, "computed")),
                  ListArray("List", Column(rows, "errors")),
                  ListArray("List", Column(rows, "events"))>>,
                Len(rows))

OddAccelTables ==
    LET s == AccelBatchOf(<<GoodAccel(1, T_a)>>)
    IN  { <<Drop(s, name)>> : name \in {AccelColumns[i] : i \in 1..Len(AccelColumns)} }
        \cup { <<Retyped(s, "computed", NullArray(1))>>,
               <<Retyped(s, "m_value", OtherArray("Float64", 1))>>,
               <<AccelBatchOf(<<>>)>> }

AccelInputs == Tables(AccelRows, MaxTableRows, AccelBatchOf) \cup OddAccelTables

\* the calls of filter_data: every series table with an accelerations table
\* of one row, and the series tables that decode with the accelerations
\* tables of one batch of rows that decode and with the odd ones
FilterInputs ==
    { [series |-> s, accelerations |-> a] :
        s \in Tables(SeriesRows, MaxTableRows, SeriesBatchOf) \cup OddSeriesTables,
        a \in { <<AccelBatchOf(<<GoodAccel(1, T_a)>>)>>,
                <<AccelBatchOf(<<[GoodAccel(1, T_a) EXCEPT !.m_value = None]>>)>> } }
    \cup { [series |-> s, accelerations |-> a] :
            s \in Tables(PlainSeriesRows, MaxTableRows, SeriesBatchOf),
            a \in { <<AccelBatchOf(rows)>> :
                        rows \in SeqsUpTo(PlainAccelRows, MaxTableRows) }
                   \cup OddAccelTables }

\* the series and the acceleration records the quick filter is tried on
ItemSeries ==
    { SeriesRecord(T_a, 1, T_a, EmptyMap, DefaultComplex, <<>>),
      SeriesRecord(T_c, 2, T_c, (T_x :> T_a), DefaultComplex, <<>>),
      SeriesRecord(T_a, 3, T_c, (T_x :> T_c), DefaultComplex, <<>>) }

ItemAccels ==
    { AccelRecord(AccelInfo(T_a, 1, EmptyMap), <<>>, <<>>, <<>>),
      AccelRecord(AccelInfo(T_c, 2, EmptyMap), <<>>, <<>>, <<>>),
      AccelRecord(AccelInfo(T_a, 2, (T_x :> T_a)), <<>>, <<>>, <<>>) }

\* some items to build lists of several series with
PlainItems ==
    { <<s, a>> : s \in { r \in ItemSeries : r.precision = T_a },
                 a \in { <<>>, <<AccelRecord(AccelInfo(T_a, 1, EmptyMap), <<>>, <<>>, <<>>),
                                 AccelRecord(AccelInfo(T_c, 2, EmptyMap), <<>>, <<>>, <<>>)>> } }

\* the selections of the quick filter
FilterChoices ==
    { Filters(precisions, base_series, base_accel, m_values, accel_params, series_params) :
        precisions \in {{}, {T_a}}, base_series \in {{}, {T_c}},
        base_accel \in {{}, {T_a}}, m_values \in {{}, {2}},
        accel_params \in {EmptyMap, (T_x :> {T_a})},
        series_params \in {EmptyMap, (T_x :> {T_a}), (T_x :> {T_a, T_c})} }

\* the calls of filter_data_items: every selection on every list of one
\* series, and on the lists of several plain items
ItemInputs ==
    { [data_items |-> d, filters |-> f] :
        d \in { <<<<s, a>>>> : s \in ItemSeries, a \in SeqsUpTo(ItemAccels, MaxTableRows) }
               \cup (SeqsUpTo(PlainItems, MaxTableRows) \ {<<>>}),
        f \in FilterChoices }
    \cup { [data_items |-> <<>>, filters |-> f] : f \in FilterChoices }

\* what a load can send to the dashboard: one series with two acceleration
\* records of different names, two series of different precision and
\* argument, or an error
LoadResults ==
    { Ok(<< <<SeriesRecord(T_a, 1, T_a, EmptyMap, DefaultComplex, <<>>),
              <<AccelRecord(AccelInfo(T_a, 1, EmptyMap), <<>>, <<>>, <<>>),
                AccelRecord(AccelInfo(T_c, 1, EmptyMap), <<>>, <<>>, <<>>)>> >> >>),
      Ok(<< <<SeriesRecord(T_c, 2, T_c, (T_x :> T_a), DefaultComplex, <<>>),
              <<AccelRecord(AccelInfo(T_a, 2, EmptyMap), <<>>, <<>>, <<>>)>> >>,
            <<SeriesRecord(T_a, 3, T_c, (T_x :> T_c), DefaultComplex, <<>>),
              <<AccelRecord(AccelInfo(T_a, 2, (T_x :> T_a)), <<>>, <<>>, <<>>)>> >> >>),
      Err("Error filtering data", <<>>) }

\* the numbers format is called on: the mantissas and exponents of the
\* round trip, the exponents around the two switches of notation, both
\* ends of i32, and the mantissas that are no numbers
FormatMantissas ==
    { Finite(FALSE, 0, 0), Finite(TRUE, 0, 0), Finite(FALSE, 1, 0), Finite(TRUE, 1, 0),
      Finite(FALSE, 314159, 5), Finite(FALSE, 9999, 3), Finite(FALSE, 5, 1),
      Finite(TRUE, 996, 2), Finite(FALSE, 12, 0),
      Infinite(FALSE), Infinite(TRUE), NaN(FALSE) }

FormatExponents ==
    { -2147483647 - 1, -60, -10, -3, -2, -1, 0, 1, 2, 3, 4, 10, 60, 2147483647 }

FormatInputs == { Scientific(m, e) : m \in FormatMantissas, e \in FormatExponents }

\* the points symlog is applied to, one at a time: mantissas from the least
\* to the largest f64, exponents from the least to the largest i32
SymlogMantissas ==
    { Finite(FALSE, 0, 0), Finite(TRUE, 0, 0), Finite(FALSE, 1, 0), Finite(TRUE, 1, 0),
      Finite(FALSE, 314159, 5), Finite(FALSE, 9999, 3), Finite(TRUE, 25, 1),
      Finite(FALSE, 5, 324), Finite(FALSE, 17, -307),
      Infinite(FALSE), Infinite(TRUE), NaN(FALSE) }

SymlogExponents ==
    { -2147483647 - 1, -400, -324, -323, -80, -67, -66, -65, -51, -50, -49,
      -35, -34, -33, -16, 0, 16, 300, 308, 309, 400, 2147483647 }

\* exponents below, around and above the switch of formula at 1e-34
Ladder == { -80, -70, -67, -66, -65, -60, -50, -40, -35, -34, -33, -30, 0, 300 }

\* two points of one positive mantissa, the smaller first
LadderPairs ==
    { <<Scientific(m, e1), Scientific(m, e2)>> :
        m \in { Finite(FALSE, 1, 0), Finite(FALSE, 314159, 5), Finite(FALSE, 9999, 3) },
        e1 \in Ladder, e2 \in Ladder }

SymlogInputs ==
    { <<Scientific(m, e)>> : m \in SymlogMantissas, e \in SymlogExponents }
    \cup { pair \in LadderPairs : pair[1].e < pair[2].e }

\* the texts parse_scientific is called on: every text of up to MaxTextLen
\* characters of a small alphabet, and the words of the float grammar
Alphabet == {"1", "5", ".", "e", "E", "-", "x"}

Words ==
    { <<"i", "n", "f">>, <<"-", "i", "n", "f">>, <<"+", "I", "N", "F">>,
      <<"n", "a", "n">>, <<"N", "a", "N">>,
      <<"i", "n", "f", "i", "n", "i", "t", "y">>,
      <<"i", "n", "f", "e", "1">>, <<"n", "a", "n", "E", "-", "5">>,
      <<"i", "n", "f", "x">>, <<"+", "1", "5">>,
      <<"1", "e", "2", "1", "4", "7", "4", "8", "3", "6", "4", "7">>,
      <<"1", "e", "2", "1", "4", "7", "4", "8", "3", "6", "4", "8">> }

TextInputs == SeqsUpTo(Alphabet, MaxTextLen) \cup Words

(***************************************************************************)
(* The state machine.  The extractors are pure functions of the column, so *)
(* a behaviour is one call: the initial state holds the call (the          *)
(* extractor, the decoder handed to to_list, the column), and the action   *)
(* of that extractor computes what it returns.                             *)
(***************************************************************************)
Pending == Err("pending", <<>>)

\* DashboardApp::new
AppNew ==
    /\ data = None
    /\ loading = FALSE
    /\ symlog = TRUE
    /\ data_receiver = <<>>
    /\ loader_threads = {}
    /\ at = "idle"
    /\ loads = 0
    /\ checked = [received |-> FALSE]

Init ==
    /\ pc = "call"
    /\ ret = Pending
    /\ AppNew
    /\ \/ fn = "to_str" /\ elem = "none" /\ arg \in StrInputs
       \/ fn = "to_i64" /\ elem = "none" /\ arg \in I64Inputs
       \/ fn = "to_list" /\ elem \in Decoders /\ arg \in ListInputs(elem)
       \/ fn = "to_struct_str" /\ elem = "none" /\ arg \in StructStrInputs
       \/ fn = "to_complex" /\ elem = "none" /\ arg \in ComplexInputs
       \/ fn = "to_series_point" /\ elem = "none" /\ arg \in SeriesPointInputs
       \/ fn = "to_error_info" /\ elem = "none" /\ arg \in ErrorInfoInputs
       \/ fn = "to_event_info" /\ elem = "none" /\ arg \in EventInfoInputs
       \/ fn = "to_accel_point" /\ elem = "none" /\ arg \in AccelPointInputs
       \/ fn = "load_accelerations_for_multiple_series" /\ elem = "none" /\ arg \in AccelInputs
       \/ fn = "filter_data" /\ elem = "none" /\ arg \in FilterInputs
       \/ fn = "parse_scientific" /\ elem = "none" /\ arg \in TextInputs
       \/ fn = "filter_data_items" /\ elem = "none" /\ arg \in ItemInputs
       \/ fn = "format" /\ elem = "none" /\ arg \in FormatInputs
       \/ fn = "symlog" /\ elem = "none" /\ arg \in SymlogInputs

Return(f, r) ==
    /\ pc = "call"
    /\ fn = f
    /\ ret' = r
    /\ pc' = "done"
    /\ UNCHANGED <<fn, elem, arg>>
    /\ UNCHANGED appvars

ToStr == Return("to_str", to_str("col", arg))

ToI64 == Return("to_i64", to_i64("col", arg))

ToList == Return("to_list", to_list("col", arg, elem))

ToStructStr == Return("to_struct_str", to_struct_str("col", arg))

ToComplex == Return("to_complex", to_complex("col", arg))

ToSeriesPoint == Return("to_series_point", to_series_point("col", arg))

ToErrorInfo == Return("to_error_info", to_error_info("col", arg))

ToEventInfo == Return("to_event_info", to_event_info("col", arg))

ToAccelPoint == Return("to_accel_point", to_accel_point("col", arg))

LoadAccelerations ==
    Return("load_accelerations_for_multiple_series",
           load_accelerations_for_multiple_series(arg))

FilterData == Return("filter_data", filter_data(arg.series, arg.accelerations))

ParseScientific == Return("parse_scientific", parse_scientific(arg))

FilterDataItems ==
    Return("filter_data_items", filter_data_items(arg.data_items, arg.filters))

\* Scientific::format
Format == Return("format", format(arg))

\* Scientific::symlog on each point of a plot
SymlogPoints == Return("symlog", [i \in 1..Len(arg) |-> ScientificSymlog(arg[i])])

Next ==
    \/ ToStr
    \/ ToI64
    \/ ToList
    \/ ToStructStr
    \/ ToComplex
    \/ ToSeriesPoint
    \/ ToErrorInfo
    \/ ToEventInfo
    \/ ToAccelPoint
    \/ LoadAccelerations
    \/ FilterData
    \/ ParseScientific
    \/ FilterDataItems
    \/ Format
    \/ SymlogPoints

Spec == Init /\ [][Next]_vars

(***************************************************************************)
(* The dashboard.  A frame is one call of update(): check_for_data first,  *)
(* then the widgets, of which at most one reports a click or a change.     *)
(* The loader threads run beside the frames.  The query filters and the    *)
(* plot options other than symlog do not reach the fields modelled here.   *)
(***************************************************************************)
AppInit ==
    /\ pc = "app" /\ fn = "DashboardApp" /\ elem = "none" /\ arg = <<>> /\ ret = Pending
    /\ AppNew

\* check_for_data on a failed result leaving the data as they are
CheckForData_StaleOnError ==
    /\ pc = "app" /\ at = "idle"
    /\ at' = "ui"
    /\ IF data_receiver # <<>>
       THEN LET result == Head(data_receiver).result
            IN  /\ data_receiver' = Tail(data_receiver)
                /\ data' = IF result.ok THEN Some(Data(result.val, symlog)) ELSE data
                /\ loading' = FALSE
                /\ checked' = [received |-> TRUE, load |-> Head(data_receiver).load,
                            loads |-> loads, result |-> result,
                            selected |-> data.some
                                /\ data.v.filtered.selected_filters # DefaultFilters]
       ELSE /\ UNCHANGED <<data_receiver, data, loading>>
            /\ checked' = [received |-> FALSE]
    /\ UNCHANGED <<symlog, loader_threads, loads>>
    /\ UNCHANGED callvars

\* the start of update(): check_for_data.  try_recv takes the oldest result
\* of the channel, if there is one.  (checked keeps, for the properties, the
\* load the result came from, the number of loads at that time, and whether
\* a quick filter was selected before.)
CheckForData ==
    /\ pc = "app" /\ at = "idle"
    /\ at' = "ui"
    /\ IF data_receiver # <<>>
       THEN LET result == Head(data_receiver).result
            IN  /\ data_receiver' = Tail(data_receiver)
                /\ data' = IF result.ok THEN Some(Data(result.val, symlog)) ELSE None
                /\ loading' = FALSE
                /\ checked' = [received |-> TRUE, load |-> Head(data_receiver).load,
                            loads |-> loads, result |-> result,
                            selected |-> data.some
                                /\ data.v.filtered.selected_filters # DefaultFilters]
       ELSE /\ UNCHANGED <<data_receiver, data, loading>>
            /\ checked' = [received |-> FALSE]
    /\ UNCHANGED <<symlog, loader_threads, loads>>
    /\ UNCHANGED callvars

\* the refresh button is laid out whatever loading is
RefreshShown_Always == TRUE

\* `if self.loading { spinner } else { button }`
RefreshShown == ~loading

\* the rest of a frame in which no widget reports anything
UiNothing ==
    /\ pc = "app" /\ at = "ui"
    /\ at' = "idle"
    /\ UNCHANGED <<data, loading, symlog, data_receiver, loader_threads, loads, checked>>
    /\ UNCHANGED callvars

\* the Symlog checkbox changes: the views are rebuilt with the selection kept
UiSymlog ==
    /\ pc = "app" /\ at = "ui"
    /\ at' = "idle"
    /\ symlog' = ~symlog
    /\ data' = IF data.some
               THEN Some([data.v EXCEPT !.filtered =
                            FilteredData(data.v.data, @.selected_filters, ~symlog)])
               ELSE data
    /\ UNCHANGED <<loading, data_receiver, loader_threads, loads, checked>>
    /\ UNCHANGED callvars

\* the refresh button is clicked: update_data spawns a loader thread
UiRefresh ==
    /\ pc = "app" /\ at = "ui"
    /\ RefreshShown
    /\ loads < MaxLoads
    /\ at' = "idle"
    /\ loader_threads' = loader_threads \cup {loads + 1}
    /\ loads' = loads + 1
    /\ loading' = TRUE
    /\ UNCHANGED <<data, symlog, data_receiver, checked>>
    /\ UNCHANGED callvars

\* a checkbox of the quick filter changes: ui_filter rebuilds the views
UiQuickFilter ==
    /\ pc = "app" /\ at = "ui"
    /\ data.some
    /\ at' = "idle"
    /\ \E selected \in Selections(data.v.available_filters,
                                   data.v.filtered.selected_filters) :
            data' = Some([data.v EXCEPT !.filtered =
                            FilteredData(data.v.data, selected, symlog)])
    /\ UNCHANGED <<loading, symlog, data_receiver, loader_threads, loads, checked>>
    /\ UNCHANGED callvars

\* a loader thread ends its query and sends the result
LoaderSends ==
    /\ pc = "app"
    /\ \E load \in loader_threads :
       \E result \in LoadResults :
            /\ loader_threads' = loader_threads \ {load}
            /\ data_receiver' = Append(data_receiver, [load |-> load, result |-> result])
    /\ UNCHANGED <<data, loading, symlog, at, loads, checked>>
    /\ UNCHANGED callvars

\* a loader thread panics before it sends anything (Runtime::new().unwrap(),
\* or a panic inside the query)
LoaderPanics ==
    /\ pc = "app"
    /\ \E load \in loader_threads : loader_threads' = loader_threads \ {load}
    /\ UNCHANGED <<data, loading, symlog, data_receiver, at, loads, checked>>
    /\ UNCHANGED callvars

AppNext ==
    \/ CheckForData
    \/ UiNothing
    \/ UiSymlog
    \/ UiRefresh
    \/ UiQuickFilter
    \/ LoaderSends
    \/ LoaderPanics

AppSpec == AppInit /\ [][AppNext]_vars

\* the frames go on (the spinner shown while loading asks for a repaint in
\* every frame), and a loader thread ends one way or the other
AppLive ==
    /\ AppSpec
    /\ WF_vars(CheckForData)
    /\ WF_vars(UiNothing \/ UiSymlog \/ UiRefresh \/ UiQuickFilter)
    /\ WF_vars(LoaderSends \/ LoaderPanics)

(***************************************************************************)
(* Properties.                                                             *)
(***************************************************************************)
Done(f) == pc = "done" /\ fn = f

\* the calls that hand one column to an extractor
Extractors ==
    {"to_str", "to_i64", "to_list", "to_struct_str", "to_complex", "to_series_point",
     "to_error_info", "to_event_info", "to_accel_point"}

Rows == 1..ArrLen(arg)

AllNone(n) == [i \in 1..n |-> None]

\* the messages of the type-mismatch errors
MismatchMsgs ==
    { "Expected to be string", "Expected to be int", "Expected to be list",
      "Expected to be struct of strings", "Expected to be { real: str, imag: str }",
      "Expected to be { n: int, value: { real: str, imag: str }, deviation: str }",
      "Expected to be { n: int, message: str }",
      "Expected to be { n: int, name: str, description: str }",
      "Expected to be { value: { real: str, imag: str }, deviation: str }" }

\* child f of the struct s exists and is null at row i
FieldNull(s, f, i) ==
    LET c == column_by_name(s, f) IN c.some /\ IsNull(c.v, i)

\* child f of the struct s exists, is a string array and holds text t at row i
FieldText(s, f, i, t) ==
    LET c == column_by_name(s, f)
    IN  c.some /\ c.v.dt \in StringTypes /\ c.v.cells[i] = Some(t)

\* C1: to_list on a list column (List, LargeList, ListView, LargeListView)
\* returns, when it returns a value, one entry per row: None exactly for the
\* null cells and Some(the decoded elements) for the others; a present list
\* without elements gives Some(<<>>), never None.
C1_ListNoneIffNull ==
    (Done("to_list") /\ arg.dt \in ListTypes /\ ret.ok) =>
        /\ Len(ret.val) = Len(arg.cells)
        /\ \A i \in 1..Len(arg.cells) :
            /\ (ret.val[i] = None) <=> ~arg.cells[i].some
            /\ arg.cells[i].some => ret.val[i] = Some(Decode(elem, arg.cells[i].v).val)
            /\ (arg.cells[i].some /\ ArrLen(arg.cells[i].v) = 0) => ret.val[i] = Some(<<>>)

\* a list column [null, [], [x]] was decoded
C1_Witness ==
    /\ Done("to_list") /\ arg.dt = "LargeListView" /\ ret.ok /\ Len(arg.cells) = 3
    /\ ~arg.cells[1].some
    /\ arg.cells[2].some /\ ArrLen(arg.cells[2].v) = 0
    /\ arg.cells[3].some /\ ArrLen(arg.cells[3].v) = 1

C3_StrEncodingAgnostic ==
    (Done("to_str") /\ arg.dt \in StringTypes) =>
        /\ ret = Ok(arg.cells)
        /\ \A dt \in StringTypes : to_str("col", StringArray(dt, arg.cells)) = ret

\* ["a", null, "c"] in the view encoding
C3_Witness ==
    Done("to_str") /\ arg = StringArray("Utf8View", <<Some(T_a), None, Some(T_c)>>)

\* the extractor f knows the physical encoding of the column v, children included
RECURSIVE Recognises(_, _)
Recognises(f, v) ==
    LET child(g, name) ==
            LET c == column_by_name(v, name) IN c.some /\ Recognises(g, c.v)
    IN  CASE f = "to_str" -> v.dt \in StringTypes \cup {"Null"}
          [] f = "to_i64" -> v.dt \in IntTypes \cup {"Null"}
          [] f = "to_list" -> v.dt \in ListTypes \cup {"Null"}
          [] f = "to_struct_str" ->
                v.dt = "Struct" /\ \A j \in 1..Len(v.columns) : Recognises("to_str", v.columns[j])
          [] f = "to_complex" ->
                v.dt = "Struct" /\ child("to_str", "real") /\ child("to_str", "imag")
          [] f = "to_series_point" ->
                /\ v.dt = "Struct" /\ child("to_i64", "n")
                /\ child("to_complex", "value") /\ child("to_str", "deviation")
          [] f = "to_error_info" ->
                v.dt = "Struct" /\ child("to_i64", "n") /\ child("to_str", "message")
          [] f = "to_event_info" ->
                /\ v.dt = "Struct" /\ child("to_i64", "n")
                /\ child("to_str", "name") /\ child("to_str", "description")
          [] f = "to_accel_point" ->
                v.dt = "Struct" /\ child("to_complex", "value") /\ child("to_str", "deviation")

\* C4: an extractor given a column whose physical encoding it does not
\* recognise returns a type-mismatch error, never a sequence.
C4_UnrecognisedIsError ==
    (pc = "done" /\ fn \in Extractors /\ ~Recognises(fn, arg))
        => (~ret.ok /\ ret.msg \in MismatchMsgs)

\* a Float64 column of no rows, the case closest to "empty", was refused
C4_Witness ==
    Done("to_list") /\ arg = OtherArray("Float64", 0) /\ ~ret.ok

\* C5: a successful to_str, to_i64, to_list, to_struct_str, to_complex or
\* to_accel_point returns exactly one entry per row of the column, entry i
\* made from row i.
C5_SameLength ==
    (pc = "done"
        /\ fn \in {"to_str", "to_i64", "to_list", "to_struct_str", "to_complex", "to_accel_point"}
        /\ ret.ok) =>
        /\ Len(ret.val) = ArrLen(arg)
        /\ \A i \in Rows :
            CASE fn \in {"to_str", "to_i64", "to_list"} -> ret.val[i].some <=> ~IsNull(arg, i)
              [] fn = "to_struct_str" ->
                    \A j \in 1..Len(arg.names) :
                        (arg.names[j] \in DOMAIN ret.val[i]) <=> ~IsNull(arg.columns[j], i)
              [] OTHER -> ret.val[i].some <=> arg.valid[i]

\* a struct column of two rows, the first one null, was decoded
C5_Witness ==
    /\ Done("to_complex") /\ ret.ok /\ ArrLen(arg) = 2
    /\ ~arg.valid[1] /\ arg.valid[2]

\* the cell of row i of the string child f of the struct s
Cell(s, f, i) ==
    LET c == column_by_name(s, f).v
    IN  IF c.dt = "Null" THEN None ELSE c.cells[i]

\* the texts of the model that are numbers, and the numbers they denote
NumberTexts == {T_1p5, T_2e3}

NumberOf(t) ==
    IF t = T_1p5
    THEN [m |-> [cls |-> "finite", neg |-> FALSE, num |-> 15, scale |-> 1], e |-> 0]
    ELSE [m |-> [cls |-> "finite", neg |-> FALSE, num |-> 2, scale |-> 0], e |-> 3]

IsNumber(cell) == cell.some /\ cell.v \in NumberTexts

NullOrNumber(cell) == ~cell.some \/ cell.v \in NumberTexts

\* row i of the {real, imag} struct s is null, or holds a number for real
\* and nothing or a number for imag
ComplexRowDecodes(s, i) ==
    ~s.valid[i] \/ (IsNumber(Cell(s, "real", i)) /\ NullOrNumber(Cell(s, "imag", i)))

\* C6: to_complex gives no value for a null struct row, whatever text real
\* and imag hold there, and for any other row a ComplexNumber whose real part
\* is the number written in `real`; a non-null row whose `real` is null or
\* no number makes the whole call fail.
C6_ComplexPerRow ==
    (Done("to_complex") /\ Recognises("to_complex", arg)) =>
        /\ (\E i \in Rows : arg.valid[i] /\ ~IsNumber(Cell(arg, "real", i))) => ~ret.ok
        /\ (\A i \in Rows : ComplexRowDecodes(arg, i)) => ret.ok
        /\ ret.ok => \A i \in Rows :
                        IF arg.valid[i]
                        THEN ret.val[i].some /\ ret.val[i].v.real = NumberOf(Cell(arg, "real", i).v)
                        ELSE ret.val[i] = None

\* a null row that holds text which is no number, next to a row that decodes
C6_Witness ==
    /\ Done("to_complex") /\ Recognises("to_complex", arg) /\ ret.ok /\ ArrLen(arg) = 2
    /\ ~arg.valid[1] /\ Cell(arg, "real", 1) = Some(T_x) /\ ret.val[1] = None
    /\ arg.valid[2] /\ ret.val[2].some

\* C7 as claimed: for a non-null row the imaginary part is Scientific(0.0, 0)
\* when imag is null and also when imag is the empty text; neither is an error.
C7_ImagNullOrEmptyIsZero ==
    (Done("to_complex") /\ Recognises("to_complex", arg)
        /\ \A i \in Rows : arg.valid[i] =>
              /\ IsNumber(Cell(arg, "real", i))
              /\ Cell(arg, "imag", i) \in {None, Some(T_empty)}) =>
        (ret.ok /\ \A i \in Rows : arg.valid[i] =>
                        ret.val[i].v.imag = [m |-> [cls |-> "finite", neg |-> FALSE,
                                                    num |-> 0, scale |-> 0], e |-> 0])

\* C7 as amended: for a non-null row the imaginary part is Scientific(0.0, 0)
\* when imag is null for that row, which is no error; an imag that is present
\* as the empty text makes the call fail.
C7_ImagNullIsZero ==
    (Done("to_complex") /\ Recognises("to_complex", arg)) =>
        /\ (\A i \in Rows : arg.valid[i] =>
                IsNumber(Cell(arg, "real", i)) /\ Cell(arg, "imag", i) = None) => ret.ok
        /\ ret.ok => \A i \in Rows : (arg.valid[i] /\ Cell(arg, "imag", i) = None) =>
                        ret.val[i].v.imag = [m |-> [cls |-> "finite", neg |-> FALSE,
                                                    num |-> 0, scale |-> 0], e |-> 0]
        /\ (\E i \in Rows : arg.valid[i] /\ Cell(arg, "imag", i) = Some(T_empty)) => ~ret.ok

\* one non-null row with a number for real and the empty text for imag
C7_Witness ==
    /\ Done("to_complex") /\ Recognises("to_complex", arg) /\ ArrLen(arg) = 1
    /\ arg.valid[1] /\ Cell(arg, "real", 1) = Some(T_1p5) /\ Cell(arg, "imag", 1) = Some(T_empty)
    /\ ~ret.ok /\ ret.msg = "Failed to parse number" /\ ret.detail = T_empty

\* C8 as claimed: when n, value (the struct row, or its real) or deviation is
\* missing in some row, and nothing else is wrong with the column,
\* to_series_point fails with an error naming a sub-field that was null.
C8_MissingFieldNamed ==
    LET value == column_by_name(arg, "value").v
        missing(i) ==
            \/ FieldNull(arg, "n", i) \/ FieldNull(arg, "deviation", i)
            \/ ~value.valid[i] \/ Cell(value, "real", i) = None
        wellFormed(i) ==
            /\ NullOrNumber(Cell(arg, "deviation", i))
            /\ NullOrNumber(Cell(value, "real", i)) /\ NullOrNumber(Cell(value, "imag", i))
    IN  (Done("to_series_point") /\ Recognises("to_series_point", arg)
            /\ (\A i \in Rows : wellFormed(i)) /\ (\E i \in Rows : missing(i))) =>
            (~ret.ok /\ ret.msg \in {"n not provided", "value not provided",
                                     "deviation not provided", "real is null"})

\* C9 as claimed: to_accel_point gives None at position i exactly when struct
\* row i is null, and a null row never makes it fail, whatever value and
\* deviation hold at that position.
C9_NullRowIsNone ==
    LET value == column_by_name(arg, "value").v
        decodes(i) ==
            /\ IsNumber(Cell(arg, "deviation", i))
            /\ value.valid[i] /\ ComplexRowDecodes(value, i)
    IN  (Done("to_accel_point") /\ Recognises("to_accel_point", arg)
            /\ \A i \in Rows : arg.valid[i] => decodes(i)) =>
            (ret.ok /\ \A i \in Rows : (ret.val[i] = None) <=> ~arg.valid[i])

\* C10: to_accel_point fails when a non-null struct row has a null value or
\* a null deviation; the points it returns carry the value and the deviation
\* written in their row, never a substitute.
C10_AccelRequiresBoth ==
    (Done("to_accel_point") /\ arg.dt = "Struct") =>
        /\ (\E i \in Rows : /\ arg.valid[i]
                            /\ (FieldNull(arg, "value", i) \/ FieldNull(arg, "deviation", i)))
                => ~ret.ok
        /\ ret.ok => \A i \in Rows : arg.valid[i] =>
                /\ ret.val[i].some
                /\ ret.val[i].v.deviation = NumberOf(Cell(arg, "deviation", i).v)
                /\ column_by_name(arg, "value").v.valid[i]
                /\ ret.val[i].v.value.real =
                        NumberOf(Cell(column_by_name(arg, "value").v, "real", i).v)

\* a non-null row with a deviation and a null value was refused
C10_Witness ==
    /\ Done("to_accel_point") /\ Recognises("to_accel_point", arg) /\ ArrLen(arg) = 1
    /\ arg.valid[1] /\ FieldNull(arg, "value", 1) /\ Cell(arg, "deviation", 1) = Some(T_1p5)
    /\ ~ret.ok /\ ret.msg = "no value in accel point"

\* C11: to_struct_str returns, when it returns a value, one map per row of
\* the struct; the keys of the map of row i are exactly the names of the
\* children whose cell is non-null in row i (whether or not the struct row
\* itself is null), and each key is mapped to that cell's text.
C11_StructStrKeys ==
    (Done("to_struct_str") /\ ret.ok) =>
        /\ arg.dt = "Struct"
        /\ Len(ret.val) = ArrLen(arg)
        /\ \A i \in Rows :
            /\ DOMAIN ret.val[i] =
                    {arg.names[j] : j \in {k \in 1..Len(arg.names) :
                                            Cell(arg, arg.names[k], i).some}}
            /\ \A key \in DOMAIN ret.val[i] : ret.val[i][key] = Cell(arg, key, i).v

\* a null struct row whose p cell holds a text and whose q cell is null:
\* its map has the key p alone
C11_Witness ==
    /\ Done("to_struct_str") /\ ret.ok /\ arg.dt = "Struct" /\ ArrLen(arg) = 2
    /\ Len(arg.names) = 2
    /\ ~arg.valid[1] /\ Cell(arg, "p", 1) = Some(T_a) /\ Cell(arg, "q", 1) = None
    /\ DOMAIN ret.val[1] = {"p"} /\ ret.val[1]["p"] = T_a
    /\ Cell(arg, "p", 2) = None /\ Cell(arg, "q", 2) = None /\ DOMAIN ret.val[2] = {}

\* C12 as claimed: to_i64 on a column of any of the eight integer types
\* returns, for every non-null cell, a value numerically equal to the cell,
\* also for the cells of an unsigned 64-bit column above the greatest signed
\* 64-bit value.
C12_WidenKeepsValue ==
    (Done("to_i64") /\ arg.dt \in IntTypes) =>
        /\ ret.ok /\ Len(ret.val) = Len(arg.cells)
        /\ \A i \in 1..Len(arg.cells) :
                arg.cells[i].some => ret.val[i] = Some(arg.cells[i].v)

Loaded == Done("load_accelerations_for_multiple_series")

Filtered == Done("filter_data")

\* the integer column called name of s holds in row i a value outside the
\* range of i32
OutOfI32(s, name, i) ==
    LET c == column_by_name(s, name)
    IN  /\ c.some /\ c.v.dt \in IntTypes /\ i \in 1..Len(c.v.cells)
        /\ c.v.cells[i].some
        /\ (c.v.cells[i].v < MinOf("Int32") \/ c.v.cells[i].v > MaxOf("Int32"))

\* C13 as claimed: when the n of a series point, the series_id or m_value
\* of an accelerations row, or the series_id of a series row holds a value
\* outside the range of i32, the decode fails.
C13_OutOfRangeFails ==
    /\ (Done("to_series_point") /\ arg.dt = "Struct"
            /\ \E i \in Rows : OutOfI32(arg, "n", i)) => ~ret.ok
    /\ (Loaded /\ \E b \in 1..Len(arg) : \E i \in 1..arg[b].num_rows :
                    OutOfI32(arg[b], "series_id", i) \/ OutOfI32(arg[b], "m_value", i))
            => ~ret.ok
    /\ (Filtered /\ \E b \in 1..Len(arg.series) : \E i \in 1..arg.series[b].num_rows :
                    OutOfI32(arg.series[b], "series_id", i))
            => ~ret.ok

\* the column called name of the batch exists and is null in row i
NullIn(batch, name, i) ==
    LET c == column_by_name(batch, name)
    IN  c.some /\ i \in 1..ArrLen(c.v) /\ IsNull(c.v, i)

\* C14 as claimed: filter_data fails when the precision, series_id,
\* series_name, series_limit or computed cell of some series row is null.
C14_NullRequiredFails ==
    (Filtered /\ \E b \in 1..Len(arg.series) : \E i \in 1..arg.series[b].num_rows :
                    \E name \in {"precision", "series_id", "series_name",
                                 "series_limit", "computed"} :
                        NullIn(arg.series[b], name, i))
        => ~ret.ok

\* a required column of the batch is missing
Lacks(batch, names) == \E name \in names : ~column_by_name(batch, name).some

\* the series batch cannot be decoded: a required column is missing, or a
\* row has no precision, series_id, series_name or computed
SeriesBatchBad(batch) ==
    \/ Lacks(batch, {SeriesColumns[j] : j \in 1..Len(SeriesColumns)})
    \/ \E i \in 1..batch.num_rows :
            \E name \in {"precision", "series_id", "series_name", "computed"} :
                NullIn(batch, name, i)

\* the accelerations batch cannot be decoded: a required column is missing,
\* or a row has no series_id, accel_name, m_value or computed, or its
\* computed list holds a point without deviation
AccelBatchBad(batch) ==
    \/ Lacks(batch, {"series_id", "accel_name", "m_value", "computed"})
    \/ \E i \in 1..batch.num_rows :
            \/ \E name \in {"series_id", "accel_name", "m_value", "computed"} :
                    NullIn(batch, name, i)
            \/ /\ column_by_name(batch, "computed").v.dt \in ListTypes
               /\ column_by_name(batch, "computed").v.cells[i] = Some(BadAccelSlice)

\* the number of rows of the batches
RECURSIVE NumRows(_)
NumRows(batches) ==
    IF batches = <<>> THEN 0 ELSE Head(batches).num_rows + NumRows(Tail(batches))

\* C15: filter_data returns an error, which carries no record, when some
\* series batch cannot be decoded, or when the series have rows and some
\* accelerations batch cannot be decoded, however many rows and batches
\* before the failing one are sound; load_accelerations_for_multiple_series
\* does so when some accelerations batch cannot be decoded.
C15_AllOrNothing ==
    /\ (Filtered /\ (\/ \E b \in 1..Len(arg.series) : SeriesBatchBad(arg.series[b])
                     \/ /\ NumRows(arg.series) > 0
                        /\ \E b \in 1..Len(arg.accelerations) :
                                AccelBatchBad(arg.accelerations[b])))
            => (~ret.ok /\ DOMAIN ret = {"ok", "msg", "detail"})
    /\ (Loaded /\ \E b \in 1..Len(arg) : AccelBatchBad(arg[b]))
            => (~ret.ok /\ DOMAIN ret = {"ok", "msg", "detail"})

\* two series batches of one row: the first is sound, the second has no
\* precision; the call failed
C15_Witness ==
    /\ Filtered /\ Len(arg.series) = 2
    /\ ~SeriesBatchBad(arg.series[1]) /\ arg.series[1].num_rows = 1
    /\ NullIn(arg.series[2], "precision", 1)
    /\ ~ret.ok /\ ret.msg = "precision is null"

\* the rows of the accelerations batches in the order in which they are
\* read (batch order, then row order): the series_id cell of each row and
\* the record decoded from the row
ReadRows(batches) ==
    Flatten([b \in 1..Len(batches) |->
                LET cells == column_by_name(batches[b], "series_id").v.cells
                    rows == AccelBatch(batches[b]).val
                IN  [i \in 1..batches[b].num_rows |->
                        [cell |-> cells[i].v, accel_record |-> rows[i].accel_record]]])

\* the records of the rows whose series_id cell, as an i32, is id, in the
\* order of the rows
RECURSIVE RecordsOf(_, _)
RecordsOf(rows, id) ==
    IF rows = <<>> THEN <<>>
    ELSE IF AsI32(Head(rows).cell) = id
         THEN <<Head(rows).accel_record>> \o RecordsOf(Tail(rows), id)
         ELSE RecordsOf(Tail(rows), id)

\* groups is the grouping of rows: the keys are the series_id of the rows
\* (the cell itself when it is within the range of i32), and the group of a
\* key holds the records of the rows of that key, each once, in the order of
\* the rows
IsGrouping(groups, rows) ==
    /\ DOMAIN groups = {AsI32(rows[k].cell) : k \in 1..Len(rows)}
    /\ \A k \in 1..Len(rows) :
            (rows[k].cell >= MinOf("Int32") /\ rows[k].cell <= MaxOf("Int32"))
                => rows[k].cell \in DOMAIN groups
    /\ \A id \in DOMAIN groups : groups[id] = RecordsOf(rows, id)

\* C16: the map load_accelerations_for_multiple_series returns holds every
\* decoded row in exactly one group, the group of the row's series_id, and
\* the records of a group are in the order in which their rows were read.
C16_GroupedInReadOrder ==
    (Loaded /\ ret.ok) => IsGrouping(ret.val, ReadRows(arg))

\* two batches of one row each, both of series 1, with different names:
\* one group of two records in the order of the batches
C16_Witness ==
    /\ Loaded /\ ret.ok /\ Len(arg) = 2
    /\ DOMAIN ret.val = {1} /\ Len(ret.val[1]) = 2
    /\ \A k \in 1..2 : ret.val[1][k].accel_info.m_value = 2
    /\ ret.val[1][1].accel_info.name = T_a /\ ret.val[1][2].accel_info.name = T_c
    /\ column_by_name(arg[1], "accel_name").v.cells[1] = Some(T_a)
    /\ column_by_name(arg[2], "accel_name").v.cells[1] = Some(T_c)

\* C17: in the result of filter_data every series record is paired with the
\* records of exactly the accelerations rows of its series_id, in the order
\* in which the rows were read; a series_id without accelerations rows is
\* paired with the empty sequence, and that is no error.
C17_PairedById ==
    (Filtered /\ ret.ok) =>
        LET rows == ReadRows(arg.accelerations)
        IN  \A k \in 1..Len(ret.val) :
                ret.val[k][2] = RecordsOf(rows, ret.val[k][1].series_id)

\* series 1 and series 2, accelerations rows of series 1 only: series 2 is
\* paired with the empty sequence
C17_Witness ==
    /\ Filtered /\ ret.ok /\ Len(ret.val) = 2 /\ NumRows(arg.accelerations) = 2
    /\ ret.val[1][1].series_id = 1 /\ Len(ret.val[1][2]) = 2
    /\ ret.val[2][1].series_id = 2 /\ ret.val[2][2] = <<>>

\* the series rows in the order in which they are read: the series_id cell
\* of each row and the record decoded from the row
ReadSeries(batches) ==
    Flatten([b \in 1..Len(batches) |->
                LET cells == column_by_name(batches[b], "series_id").v.cells
                    rows == SeriesBatch(batches[b]).val
                IN  [i \in 1..batches[b].num_rows |->
                        [cell |-> cells[i].v, series_record |-> rows[i]]]])

\* C18: filter_data returns one pair per series row read, in the order in
\* which the rows were read; the pair of a row holds the record decoded from
\* that row, and rows of the same series_id each have their own pair,
\* each with all the accelerations records of that series_id.
C18_OnePairPerRow ==
    (Filtered /\ ret.ok) =>
        /\ Len(ret.val) = NumRows(arg.series)
        /\ LET rows == ReadSeries(arg.series)
           IN  \A k \in 1..Len(ret.val) :
                   /\ ret.val[k][1] = rows[k].series_record
                   /\ ret.val[k][1].series_id = AsI32(rows[k].cell)
        /\ \A k, h \in 1..Len(ret.val) :
                ret.val[k][1].series_id = ret.val[h][1].series_id
                    => ret.val[k][2] = ret.val[h][2]

\* two series rows of series 1, the second one without series_limit, and
\* two accelerations rows of series 1: two pairs in the order of the rows,
\* both with the two accelerations records
C18_Witness ==
    /\ Filtered /\ ret.ok /\ NumRows(arg.series) = 2 /\ Len(ret.val) = 2
    /\ ret.val[1][1].series_id = 1 /\ ret.val[2][1].series_id = 1
    /\ ret.val[1][1].series_limit # DefaultComplex
    /\ ret.val[2][1].series_limit = DefaultComplex
    /\ Len(ret.val[1][2]) = 2 /\ ret.val[2][2] = ret.val[1][2]

Parsed == Done("parse_scientific")

\* the place of the first exponent marker of the text, 0 when it has none
FirstMarker(t) ==
    IF \E i \in 1..Len(t) : t[i] \in {"e", "E"}
    THEN CHOOSE i \in 1..Len(t) :
            t[i] \in {"e", "E"} /\ \A j \in 1..(i - 1) : t[j] \notin {"e", "E"}
    ELSE 0

\* C19: on a text with an exponent marker parse_scientific parses the text
\* before the first marker as a float and the text after it as an i32, and
\* returns the two, failing when one of them does not parse; on a text
\* without marker it parses the whole text as a float and returns it with
\* the exponent 0, failing when it does not parse.
C19_SplitAtFirstMarker ==
    Parsed =>
        LET p == FirstMarker(arg)
            mantissa == ParseF64(SubSeq(arg, 1, p - 1))
            exponent == ParseI32(SubSeq(arg, p + 1, Len(arg)))
        IN  IF p # 0
            THEN /\ ret.ok <=> (mantissa.ok /\ exponent.ok)
                 /\ ret.ok => ret.val = [m |-> mantissa.val, e |-> exponent.val]
            ELSE /\ ret.ok <=> ParseF64(arg).ok
                 /\ ret.ok => ret.val = [m |-> ParseF64(arg).val, e |-> 0]

\* "1E5", split at the upper-case marker
C19_Witness ==
    /\ Parsed /\ arg = <<"1", "E", "5">>
    /\ ret = Ok([m |-> [cls |-> "finite", neg |-> FALSE, num |-> 1, scale |-> 0], e |-> 5])

\* C20 as claimed: parse_scientific rejects every text that is no decimal
\* numeral and no mantissa+exponent numeral, the empty text, inf and nan
\* among them, so that the mantissa of every Scientific it returns is
\* finite.
C20_OnlyFiniteNumerals ==
    Parsed =>
        /\ arg \in {<<>>, <<"i", "n", "f">>, <<"n", "a", "n">>} => ~ret.ok
        /\ ret.ok => ret.val.m.cls = "finite"

\* the accelerations batch has its four required columns, of a type their
\* extractor reads, and no row of it lacks one of them
RequiredSound(batch) ==
    /\ ~AccelBatchBad(batch)
    /\ column_by_name(batch, "series_id").v.dt \in IntTypes
    /\ column_by_name(batch, "m_value").v.dt \in IntTypes
    /\ column_by_name(batch, "accel_name").v.dt \in StringTypes
    /\ column_by_name(batch, "computed").v.dt \in ListTypes

\* the rows of the accelerations batches in the order in which they are
\* read: the series_id cell of each row and what the row lacks
LackRows(batches) ==
    Flatten([b \in 1..Len(batches) |->
                LET cells == column_by_name(batches[b], "series_id").v.cells
                IN  [i \in 1..batches[b].num_rows |->
                        [cell |-> cells[i].v,
                         accel_record |->
                            [errors |-> Lacks(batches[b], {"errors"})
                                            \/ NullIn(batches[b], "errors", i),
                             events |-> Lacks(batches[b], {"events"})
                                            \/ NullIn(batches[b], "events", i),
                             additional_args |-> Lacks(batches[b], {"additional_args"})]]]])

\* C30: in load_accelerations_for_multiple_series a null errors or events
\* cell and an absent errors, events or additional_args column are no error
\* (batches that are sound in their required columns load), the record of
\* such a row has an empty errors list, events list or arguments map, and a
\* null computed cell or an absent computed column makes the call fail.
C30_OptionalColumnsDefault ==
    Loaded =>
        /\ (\A b \in 1..Len(arg) : RequiredSound(arg[b])) => ret.ok
        /\ ret.ok =>
                \A id \in DOMAIN ret.val :
                    LET lacks == RecordsOf(LackRows(arg), id)
                    IN  /\ Len(lacks) = Len(ret.val[id])
                        /\ \A k \in 1..Len(lacks) :
                            /\ lacks[k].errors => ret.val[id][k].errors = <<>>
                            /\ lacks[k].events => ret.val[id][k].events = <<>>
                            /\ lacks[k].additional_args
                                    => ret.val[id][k].accel_info.additional_args = EmptyMap
        /\ (\E b \in 1..Len(arg) :
                \/ Lacks(arg[b], {"computed"})
                \/ \E i \in 1..arg[b].num_rows : NullIn(arg[b], "computed", i))
            => ~ret.ok

\* one row whose errors and events cells are both null: it is loaded with
\* an empty errors list and an empty events list
C30_Witness ==
    /\ Loaded /\ ret.ok /\ Len(arg) = 1 /\ arg[1].num_rows = 1
    /\ NullIn(arg[1], "errors", 1) /\ NullIn(arg[1], "events", 1)
    /\ ret.val[1][1].errors = <<>> /\ ret.val[1][1].events = <<>>
    /\ ret.val[1][1].computed # <<>>

Items == Done("filter_data_items")

\* no criterion of the filters is set
NoCriterion(f) ==
    /\ f.precisions = {} /\ f.base_series = {} /\ f.base_accel = {} /\ f.m_values = {}
    /\ DOMAIN f.series_params = {} /\ DOMAIN f.accel_params = {}

\* the value of the argument called key passes the criterion on params:
\* every parameter named there is an argument with one of the allowed values
PassesParams(params, args) ==
    \A key \in DOMAIN params : key \in DOMAIN args /\ args[key] \in params[key]

\* the series passes every series-level criterion that is set
SeriesPasses(f, s) ==
    /\ f.precisions # {} => s.precision \in f.precisions
    /\ f.base_series # {} => s.name \in f.base_series
    /\ DOMAIN f.series_params # {} => PassesParams(f.series_params, s.arguments)

\* the acceleration record passes every acceleration-level criterion that
\* is set
AccelPasses(f, r) ==
    /\ f.base_accel # {} => r.accel_info.name \in f.base_accel
    /\ f.m_values # {} => r.accel_info.m_value \in f.m_values
    /\ DOMAIN f.accel_params # {} => PassesParams(f.accel_params, r.accel_info.additional_args)

\* sub is the subsequence of s at the places of the set keep, in order
IsSubAt(sub, s, keep) ==
    /\ Len(sub) = Cardinality(keep)
    /\ \A k \in 1..Len(sub) :
            \E i \in keep : Cardinality({j \in keep : j <= i}) = k /\ sub[k] = s[i]

\* C29: with some criterion set, filter_data_items returns, in the order of
\* the list, exactly the series that pass every series-level criterion set
\* and have a record passing every acceleration-level criterion set, each
\* with exactly its passing records in their order; with no criterion set
\* it returns every series with all its records.
C29_QuickFilter ==
    Items =>
        LET d == arg.data_items
            f == arg.filters
            kept == { i \in 1..Len(d) :
                        /\ SeriesPasses(f, d[i][1])
                        /\ \E k \in 1..Len(d[i][2]) : AccelPasses(f, d[i][2][k]) }
        IN  IF NoCriterion(f)
            THEN ret = d
            ELSE /\ Len(ret) = Cardinality(kept)
                 /\ \A n \in 1..Len(ret) :
                        \E i \in kept :
                            /\ Cardinality({j \in kept : j <= i}) = n
                            /\ ret[n][1] = d[i][1]
                            /\ IsSubAt(ret[n][2], d[i][2],
                                       {k \in 1..Len(d[i][2]) : AccelPasses(f, d[i][2][k])})

\* two series of precision a, the first without records: with the
\* precision filter on a, only the second is returned, with its two records
C29_Witness ==
    /\ Items /\ Len(arg.data_items) = 2 /\ arg.filters.precisions = {T_a}
    /\ arg.filters.base_accel = {} /\ arg.filters.m_values = {}
    /\ arg.data_items[1][2] = <<>> /\ SeriesPasses(arg.filters, arg.data_items[1][1])
    /\ Len(arg.data_items[2][2]) = 2
    /\ ret = <<arg.data_items[2]>>

\* the step of check_for_data: a frame starts
CheckStep == pc = "app" /\ at = "idle" /\ at' = "ui"

\* every value the filters offer occurs in the entries
OfferedFrom(offer, entries) ==
    LET records == UNION { { entries[i][2][k] : k \in 1..Len(entries[i][2]) } :
                            i \in 1..Len(entries) }
    IN  /\ \A x \in offer.precisions : \E i \in 1..Len(entries) : entries[i][1].precision = x
        /\ \A x \in offer.base_series : \E i \in 1..Len(entries) : entries[i][1].name = x
        /\ \A x \in offer.base_accel : \E r \in records : r.accel_info.name = x
        /\ \A x \in offer.m_values : \E r \in records : r.accel_info.m_value = x
        /\ \A k \in DOMAIN offer.series_params : \A x \in offer.series_params[k] :
                \E i \in 1..Len(entries) :
                    k \in DOMAIN entries[i][1].arguments /\ entries[i][1].arguments[k] = x
        /\ \A k \in DOMAIN offer.accel_params : \A x \in offer.accel_params[k] :
                \E r \in records :
                    /\ k \in DOMAIN r.accel_info.additional_args
                    /\ r.accel_info.additional_args[k] = x

\* C26: when check_for_data finds a result, the oldest of the channel, it
\* takes it and loading becomes false; after a successful result the data
\* held are the entries of that result, the quick filter offers only values
\* of these entries, nothing is selected in it and every entry is shown;
\* after a failed result no data are held; when the channel is empty,
\* data, loading and the channel stay as they are.
C26_ResultReplacesData ==
    [][CheckStep =>
        IF data_receiver = <<>>
        THEN UNCHANGED <<data, loading, data_receiver, symlog>>
        ELSE LET result == Head(data_receiver).result
             IN  /\ data_receiver' = Tail(data_receiver)
                 /\ loading' = FALSE
                 /\ ~result.ok => data' = None
                 /\ result.ok =>
                        /\ data'.some
                        /\ data'.v.data = result.val
                        /\ OfferedFrom(data'.v.available_filters, result.val)
                        /\ data'.v.filtered.selected_filters = DefaultFilters
                        /\ data'.v.filtered.views.filtered = result.val]_vars

\* the second load has succeeded while a quick filter was selected on the
\* data of the first: its entries are held and nothing is selected
C26_Witness ==
    /\ pc = "app" /\ at = "ui"
    /\ checked.received /\ checked.result.ok /\ checked.selected /\ checked.load = 2
    /\ ~loading
    /\ data.some /\ data.v.data = checked.result.val
    /\ data.v.filtered.selected_filters = DefaultFilters

\* C27: the loader threads that run and the results that wait in the
\* channel are at most one together; loading is true as long as there is
\* one; and a result that check_for_data takes comes from the most recent
\* update_data call.
C27_OneLoadInFlight ==
    pc = "app" =>
        /\ Cardinality(loader_threads) + Len(data_receiver) <= 1
        /\ (loader_threads # {} \/ data_receiver # <<>>) => loading
        /\ checked.received => checked.load = checked.loads

\* the result of the second load waits in the channel
C27_Witness ==
    /\ pc = "app" /\ loads = 2 /\ loading
    /\ loader_threads = {} /\ Len(data_receiver) = 1 /\ data_receiver[1].load = 2

\* C28 as claimed: whenever loading is true, it is false again in some
\* later frame, also when the loader thread ends without sending a result.
C28_LoadingEnds == loading ~> ~loading

\* The decimal num * 10^k, and the order of such decimals (of at most nine
\* digits each).
Dec(num, k) == [num |-> num, k |-> k]

DecLess(a, b) ==
    IF a.num = 0 THEN b.num > 0
    ELSE IF b.num = 0 THEN FALSE
    ELSE LET pa == NumDigits(a.num) + a.k
             pb == NumDigits(b.num) + b.k
         IN  pa < pb \/ (pa = pb /\ Lead9(a.num) < Lead9(b.num))

DecLeq(a, b) == ~DecLess(b, a)

\* A result of symlog is sign * log10(W) with W = one + Y or W = Y: whether
\* the one is there (a result of zero is log10(1)), and Y.
HasOne(r) == r.cls = "log" => r.one

YOf(r) == IF r.cls = "log" THEN Dec(r.num, r.e - r.scale - LOG_LINTHRESH) ELSE Dec(0, 0)

\* |x| / 1e-50 for the number x of a point
YOfPoint(s) == Dec(s.m.num, s.e - s.m.scale - LOG_LINTHRESH)

IsFiniteResult(r) == r.cls \in {"finite", "log"}

\* C21: symlog of a zero mantissa is exactly 0, whatever the exponent is
C21_ZeroMantissa ==
    Done("symlog") =>
        \A i \in 1..Len(arg) : IsZero(arg[i].m) => ret[i] = Finite(FALSE, 0, 0)

C21_Witness ==
    /\ Done("symlog")
    /\ arg = <<Scientific(Finite(FALSE, 0, 0), 2147483647)>>
    /\ ret = <<Finite(FALSE, 0, 0)>>

\* the order of two results of symlog that are not negative.  The one is
\* dropped from 1e16 on only, where it is beyond the ninth digit.
SymLess(a, b) ==
    CASE HasOne(a) /\ ~HasOne(b) -> DecLess(Dec(1, 0), YOf(b)) /\ DecLess(YOf(a), YOf(b))
      [] ~HasOne(a) /\ HasOne(b) -> DecLess(YOf(a), Dec(1, 0)) /\ DecLeq(YOf(a), YOf(b))
      [] OTHER -> DecLess(YOf(a), YOf(b))

\* b - a <= step for two results of symlog: W of b is at most 10^step times
\* W of a
BoundedStep(a, b, step) ==
    IF IsZero(a)
    THEN \/ IsZero(b)
         \/ b.one /\ DecLeq(YOf(b), Dec(9, step - 1))
         \/ ~b.one /\ DecLeq(YOf(b), Dec(1, step))
    ELSE /\ HasOne(b) => HasOne(a)
         /\ DecLeq(YOf(b), Dec(YOf(a).num, YOf(a).k + step))

\* symlog was applied to two points of one positive mantissa in 1..10, the
\* one of the smaller exponent first
LadderPair ==
    /\ Done("symlog")
    /\ Len(arg) = 2
    /\ IsFiniteResult(ret[1])
    /\ IsFiniteResult(ret[2])

\* C22 as claimed: of two positive magnitudes the larger has the strictly
\* larger symlog, and the two differ by no more than the step of the exponent
C22_StrictlyIncreasing ==
    LadderPair =>
        /\ SymLess(ret[1], ret[2])
        /\ BoundedStep(ret[1], ret[2], arg[2].e - arg[1].e)

\* C22: of two positive magnitudes m * 10^e1 and m * 10^e2 with e1 < e2 and
\* 1 <= m < 10, the larger never has the smaller symlog, it has the strictly
\* larger one when e2 >= -65 (below, 1 + |x| / 1e-50 is 1.0 and both are 0),
\* and the two differ by no more than e2 - e1, across the switch of formula
\* as well
C22_IncreasingAboveAbsorption ==
    LadderPair =>
        /\ ~SymLess(ret[2], ret[1])
        /\ arg[2].e >= -65 => SymLess(ret[1], ret[2])
        /\ BoundedStep(ret[1], ret[2], arg[2].e - arg[1].e)

C22_Witness ==
    /\ LadderPair
    /\ arg = <<Scientific(Finite(FALSE, 314159, 5), -35), Scientific(Finite(FALSE, 314159, 5), -34)>>
    /\ ret[1].cls = "log" /\ ret[1].one
    /\ ret[2].cls = "log" /\ ~ret[2].one
    /\ SymLess(ret[1], ret[2])

\* C23: for a finite mantissa other than zero and any exponent the result of
\* symlog is finite; a magnitude above 1e-34 gets the difference of
\* logarithms, and only for a magnitude up to 1e-34 is approx_f64 taken,
\* which is finite there and gives a result of at most 16
C23_NeverOverflows ==
    Done("symlog") =>
        \A i \in 1..Len(arg) :
            arg[i].m.cls = "finite" /\ ~IsZero(arg[i].m) =>
                /\ IsFiniteResult(ret[i])
                /\ arg[i].e > 1000 => ret[i].cls = "log" /\ ~ret[i].one /\ ret[i].e = arg[i].e
                /\ arg[i].e < -1000 => IsZero(ret[i])
                /\ (arg[i].e \in -1000..1000 /\ DecLess(Dec(1, -34 - LOG_LINTHRESH), YOfPoint(arg[i]))) =>
                       /\ ret[i].cls = "log" /\ ~ret[i].one
                       /\ DecLeq(YOf(ret[i]), YOfPoint(arg[i]))
                       /\ DecLeq(YOfPoint(arg[i]), YOf(ret[i]))
                /\ (arg[i].e \in -1000..1000 /\ DecLeq(YOfPoint(arg[i]), Dec(1, -34 - LOG_LINTHRESH))) =>
                       /\ approx_f64(arg[i]).cls = "finite"
                       /\ DecLeq(YOf(ret[i]), Dec(1, 16))

C23_Witness ==
    /\ Done("symlog")
    /\ arg = <<Scientific(Finite(FALSE, 1, 0), 400)>>
    /\ approx_f64(arg[1]).cls = "inf"
    /\ ret[1] = Log10Of(FALSE, FALSE, 1, 0, 400)

HasExponent(text) == \E i \in 1..Len(text) : text[i] = "e"

\* digits, a point and six digits, after a "-" or not
IsFixedPoint(text) ==
    LET body == IF text # <<>> /\ text[1] = "-" THEN Tail(text) ELSE text
        dot == FirstIn(body, {"."})
    IN  /\ dot > 1
        /\ Len(body) = dot + 6
        /\ IsDigits(SubSeq(body, 1, dot - 1))
        /\ IsDigits(SubSeq(body, dot + 1, Len(body)))

\* digits, a point, one digit, "e" and the exponent, after a "-" or not
IsExponential(text, exponent) ==
    LET body == IF text # <<>> /\ text[1] = "-" THEN Tail(text) ELSE text
        dot == FirstIn(body, {"."})
        e_pos == FirstIn(body, {"e"})
    IN  /\ dot > 1
        /\ e_pos = dot + 2
        /\ IsDigits(SubSeq(body, 1, dot - 1))
        /\ IsDigits(SubSeq(body, dot + 1, dot + 1))
        /\ ParseI32(SubSeq(body, e_pos + 1, Len(body))) = Ok(exponent)

\* C24: format gives "0" for a zero mantissa; otherwise the text has an
\* exponent exactly when the exponent is below -2 or above 3, and for a
\* finite mantissa it is then the mantissa with one decimal, "e" and the
\* exponent, and else a fixed-point decimal of six decimals
C24_Notation ==
    Done("format") =>
        IF IsZero(arg.m) THEN ret = <<"0">>
        ELSE /\ HasExponent(ret) <=> (arg.e < -2 \/ arg.e > 3)
             /\ arg.m.cls = "finite" =>
                    IF arg.e \in -2..3 THEN IsFixedPoint(ret)
                    ELSE IsExponential(ret, arg.e)

C24_Witness ==
    /\ Done("format")
    /\ arg = Scientific(Finite(FALSE, 314159, 5), 4)
    /\ ret = <<"3", ".", "1", "e", "4">>

\* the mantissas and exponents of the round trip
RoundTripPoint(s) ==
    /\ s.m \in { Finite(FALSE, 0, 0), Finite(FALSE, 1, 0), Finite(TRUE, 1, 0),
                 Finite(FALSE, 314159, 5), Finite(FALSE, 9999, 3) }
    /\ s.e \in { -60, -10, -1, 0, 1, 10, 60 }

\* the numbers a and b differ by at most a thousandth of b
SameValue(a, b) ==
    LET ka == a.e - a.m.scale
        kb == b.e - b.m.scale
        k == Min(ka, kb)
        va == a.m.num * Pow10(ka - k)
        vb == b.m.num * Pow10(kb - k)
        diff == IF va >= vb THEN va - vb ELSE vb - va
    IN  IF IsZero(a.m) \/ IsZero(b.m) THEN IsZero(a.m) /\ IsZero(b.m)
        ELSE /\ a.m.cls = "finite"
             /\ a.m.neg = b.m.neg
             /\ diff * 1000 <= vb

\* C25: the text format gives for a point of the round trip is parsed by
\* parse_scientific to the same number within a thousandth of it
C25_RoundTrip ==
    (Done("format") /\ RoundTripPoint(arg)) =>
        LET parsed == parse_scientific(ret)
        IN  parsed.ok /\ SameValue(parsed.val, arg)

====
